---- MODULE Spec2Model ----
(***************************************************************************)
(* A model of kowl's cluster metadata aggregation layer:                   *)
(*   - owl.Service.logDirsByBroker         (log_dir_broker.go)             *)
(*   - owl.Service.ListPartitionReassignments / AlterPartitionAssignments  *)
(* Go values are modelled as follows.  An `error` or a pointer is an       *)
(* option: None (nil) or Some(x).  An input slice that is only ranged over *)
(* is a sequence.  A slice the code builds and returns is a record         *)
(* [isNil, elems], because a nil slice and an empty slice are different    *)
(* results (JSON null against []).                                         *)
(***************************************************************************)
EXTENDS Integers, Sequences, FiniteSets, TLC

VARIABLES
    ldPc,        \* logDirsByBroker: "idle", "loop" or "done"
    responses,   \* what kafkaSvc.DescribeLogDirs returned
    idx,         \* 1-based position of the outer range loop
    result,      \* the map[int32]LogDirsByBroker under construction
    ldRet,       \* the (map, error) pair logDirsByBroker returned
    ctxDone,     \* the request context of logDirsByBroker has been cancelled
    rePc,        \* reassignment operation: "idle", "called" or "done"
    reOp,        \* "none", "list" or "alter"
    reReq,       \* the topics argument of AlterPartitionAssignments
    reRaw,       \* what the kafkaSvc call returned: [err, res]
    reRet,       \* the (result, error) pair the operation returned
    h,           \* one HTTP request in a handler of package api: its locals,
                 \* the hooks attached, the calls made and the responses sent
    hRun,        \* 1, or 2 when the same request is being served again
    hFirst,      \* what the first run sent
    inflight,    \* the calls running concurrently: for each caller the
                 \* locals of its call
    heap,        \* what the concurrent calls reach through a reference: the
                 \* result maps and the topic summaries, by address
    eb,          \* the ErrorBoundary component: its fields, the stack decodes
                 \* it has started and what copyError put on the clipboard
    vi           \* loadVersionInfo: its position, the environment, `version`
                 \* and `timestamp`

ldVars == <<ldPc, responses, idx, result, ldRet>>
reVars == <<rePc, reOp, reReq, reRaw, reRet>>
hVars == <<h, hRun, hFirst>>
ccVars == <<inflight, heap>>
vars == <<ldPc, responses, idx, result, ldRet, ctxDone, rePc, reOp, reReq, reRaw, reRet,
          h, hRun, hFirst, inflight, heap, eb, vi>>

\* what the actions of one operation leave alone
ldRest == <<reVars, hVars, ccVars, eb, vi>>
reRest == <<ldVars, ctxDone, hVars, ccVars, eb, vi>>
hRest == <<ldVars, ctxDone, reVars, ccVars, eb, vi>>
ccRest == <<ldVars, ctxDone, reVars, hVars, eb, vi>>
ebRest == <<ldVars, ctxDone, reVars, hVars, ccVars, vi>>
viRest == <<ldVars, ctxDone, reVars, hVars, ccVars, eb>>

----------------------------------------------------------------------------
(* Go values *)

None == <<>>
Some(x) == <<x>>

NilSlice == [isNil |-> TRUE, elems |-> <<>>]
Slice(s) == [isNil |-> FALSE, elems |-> s]
\* append(s, x): appending to a nil slice allocates
Append1(s, x) == [isNil |-> FALSE, elems |-> Append(s.elems, x)]

\* the positions of a slice
Indices(s) == 1..Len(s)

EmptyMap == <<>>
\* m[k] = v on a Go map: an existing key is overwritten
MapStore(m, k, v) == [x \in (DOMAIN m) \cup {k} |-> IF x = k THEN v ELSE m[x]]

\* kerr.ErrorForCode: nil for code 0, the protocol error of a known code,
\* UnknownServerError for a code the table does not hold
KnownCodes == {3, 39, 41, 56}
ErrorForCode(code) ==
    IF code = 0 THEN None
    ELSE IF code \in KnownCodes THEN Some([kerr |-> code])
    ELSE Some([kerr |-> -1])

----------------------------------------------------------------------------
(* Bounds and the adapter responses the model draws from *)

MaxBrokers == 3

NodeIDs == {1, 2, 3}

Part(p, lag, size) == [Partition |-> p, OffsetLag |-> lag, Size |-> size]
Topic(name, parts) == [Topic |-> name, Partitions |-> parts]
Dir(code, path, topics) == [ErrorCode |-> code, Dir |-> path, Topics |-> topics]

tOrders == Topic("orders", <<Part(0, 0, 100), Part(1, 4, 150)>>)
tPayments == Topic("payments", <<Part(2, 9, 7)>>)
tAudit == Topic("audit", <<>>)

dirA == Dir(0, "/data/a", <<tOrders>>)
dirB == Dir(0, "/data/b", <<tPayments, tAudit, tOrders>>)
dirFailed == Dir(56, "/data/failed", <<tPayments>>)
dirUnknown == Dir(99, "/data/unknown", <<>>)

DirLists ==
    { <<>>,
      <<dirA>>,
      <<dirA, dirB>>,
      <<dirFailed, dirA>>,
      <<dirB, dirUnknown, dirA>> }

ConnErr == Some("connection refused")

\* A failed broker request normally carries no data, but nothing in the
\* response type forbids it.
Payloads ==
    { [Error |-> None, Dirs |-> d] : d \in DirLists }
    \cup { [Error |-> ConnErr, Dirs |-> d] : d \in {<<>>, <<dirA>>} }

Meta(id) == [NodeID |-> id, Host |-> "broker", Port |-> 9092]

Response(id, p) ==
    [BrokerMetadata |-> Meta(id), Error |-> p.Error, LogDirs |-> [Dirs |-> p.Dirs]]

Responses == { Response(id, p) : id \in NodeIDs, p \in Payloads }

\* The adapter under a cancelled context: a broker whose request was
\* abandoned is reported with the context's error and no data, a broker
\* that had already answered with what it answered.
CtxCanceled == Some("context canceled")
CancelPool ==
    { Response(id, p) : id \in NodeIDs,
                        p \in { [Error |-> CtxCanceled, Dirs |-> <<>>],
                                [Error |-> None, Dirs |-> <<dirA>>] } }

RECURSIVE SeqsUpTo(_, _)
SeqsUpTo(S, n) ==
    IF n = 0 THEN { <<>> }
    ELSE LET shorter == SeqsUpTo(S, n - 1)
         IN shorter \cup { Append(s, x) : s \in { t \in shorter : Len(t) = n - 1 }, x \in S }

----------------------------------------------------------------------------
(* logDirsByBroker, log_dir_broker.go:43-105 *)

\* PartitionLoop that puts each partition in front of those before it
RECURSIVE PartitionLoopPrepend(_, _, _)
PartitionLoopPrepend(logDirTopic, partitions, j) ==
    IF j > Len(partitions) THEN logDirTopic
    ELSE LET partition == partitions[j]
         IN PartitionLoopPrepend(
                [logDirTopic EXCEPT
                    !.TotalSizeBytes = @ + partition.Size,
                    !.Partitions = <<[PartitionID |-> partition.Partition,
                                      OffsetLag |-> partition.OffsetLag,
                                      SizeBytes |-> partition.Size]>> \o @],
                partitions, j + 1)

\* lines 84-91: the partition loop of one topic, from partition j on
RECURSIVE PartitionLoop(_, _, _)
PartitionLoop(logDirTopic, partitions, j) ==
    IF j > Len(partitions) THEN logDirTopic
    ELSE LET partition == partitions[j]
         IN PartitionLoop(
                [logDirTopic EXCEPT
                    !.TotalSizeBytes = @ + partition.Size,
                    !.Partitions = Append(@, [PartitionID |-> partition.Partition,
                                              OffsetLag |-> partition.OffsetLag,
                                              SizeBytes |-> partition.Size])],
                partitions, j + 1)

\* lines 79-91: the LogDirTopic of one topic
AggregateTopic(topic) ==
    PartitionLoop([TopicName |-> topic.Topic, TotalSizeBytes |-> 0, Partitions |-> <<>>],
                  topic.Partitions, 1)

\* TopicLoop with line 93 written as an assignment instead of +=
RECURSIVE TopicLoopAssign(_, _, _)
TopicLoopAssign(logDir, topics, i) ==
    IF i > Len(topics) THEN logDir
    ELSE LET logDirTopic == AggregateTopic(topics[i])
         IN TopicLoopAssign(
                [logDir EXCEPT
                    !.Topics = Append1(@, logDirTopic),
                    !.TotalSizeBytes = logDirTopic.TotalSizeBytes,
                    !.PartitionCount = @ + Len(logDirTopic.Partitions)],
                topics, i + 1)

\* lines 78-95: the topic loop of one directory, from topic i on
RECURSIVE TopicLoop(_, _, _)
TopicLoop(logDir, topics, i) ==
    IF i > Len(topics) THEN logDir
    ELSE LET logDirTopic == AggregateTopic(topics[i])
         IN TopicLoop(
                [logDir EXCEPT
                    !.Topics = Append1(@, logDirTopic),
                    !.TotalSizeBytes = @ + logDirTopic.TotalSizeBytes,
                    !.PartitionCount = @ + Len(logDirTopic.Partitions)],
                topics, i + 1)

\* lines 64-95: the LogDir of one directory
AggregateDir(dir) ==
    LET err == ErrorForCode(dir.ErrorCode)
        logDir == [Error |-> err, AbsolutePath |-> dir.Dir, TotalSizeBytes |-> 0,
                   Topics |-> NilSlice, PartitionCount |-> 0]
    IN IF err # None THEN logDir
       ELSE TopicLoop([logDir EXCEPT !.Topics = Slice(<<>>)], dir.Topics, 1)

\* DirLoop with line 99 counting the directory instead of its topics
RECURSIVE DirLoopCountDirs(_, _, _)
DirLoopCountDirs(brokerLogDirs, dirs, k) ==
    IF k > Len(dirs) THEN brokerLogDirs
    ELSE LET logDir == AggregateDir(dirs[k])
         IN IF logDir.Error # None
            THEN DirLoopCountDirs([brokerLogDirs EXCEPT !.LogDirs = Append1(@, logDir)],
                                  dirs, k + 1)
            ELSE DirLoopCountDirs(
                    [brokerLogDirs EXCEPT
                        !.LogDirs = Append1(@, logDir),
                        !.TotalSizeBytes = @ + logDir.TotalSizeBytes,
                        !.TopicCount = @ + 1,
                        !.PartitionCount = @ + logDir.PartitionCount],
                    dirs, k + 1)

\* DirLoop with the continue of line 74 written as a break
RECURSIVE DirLoopBreak(_, _, _)
DirLoopBreak(brokerLogDirs, dirs, k) ==
    IF k > Len(dirs) THEN brokerLogDirs
    ELSE LET logDir == AggregateDir(dirs[k])
         IN IF logDir.Error # None
            THEN [brokerLogDirs EXCEPT !.LogDirs = Append1(@, logDir)]
            ELSE DirLoopBreak(
                    [brokerLogDirs EXCEPT
                        !.LogDirs = Append1(@, logDir),
                        !.TotalSizeBytes = @ + logDir.TotalSizeBytes,
                        !.TopicCount = @ + Len(logDir.Topics.elems),
                        !.PartitionCount = @ + logDir.PartitionCount],
                    dirs, k + 1)

\* lines 63-100: the directory loop of one broker, from directory k on
RECURSIVE DirLoop(_, _, _)
DirLoop(brokerLogDirs, dirs, k) ==
    IF k > Len(dirs) THEN brokerLogDirs
    ELSE LET logDir == AggregateDir(dirs[k])
         IN IF logDir.Error # None
            THEN DirLoop([brokerLogDirs EXCEPT !.LogDirs = Append1(@, logDir)], dirs, k + 1)
            ELSE DirLoop(
                    [brokerLogDirs EXCEPT
                        !.LogDirs = Append1(@, logDir),
                        !.TotalSizeBytes = @ + logDir.TotalSizeBytes,
                        !.TopicCount = @ + Len(logDir.Topics.elems),
                        !.PartitionCount = @ + logDir.PartitionCount],
                    dirs, k + 1)

\* AggregateBroker without the early continue of lines 57-60
AggregateBrokerNoContinue(response) ==
    DirLoop([BrokerMeta |-> response.BrokerMetadata,
             Error |-> response.Error,
             TotalSizeBytes |-> 0,
             LogDirs |-> Slice(<<>>),
             TopicCount |-> 0,
             PartitionCount |-> 0],
            response.LogDirs.Dirs, 1)

\* lines 49-100: the LogDirsByBroker of one response
AggregateBroker(response) ==
    LET brokerLogDirs == [BrokerMeta |-> response.BrokerMetadata,
                          Error |-> response.Error,
                          TotalSizeBytes |-> 0,
                          LogDirs |-> NilSlice,
                          TopicCount |-> 0,
                          PartitionCount |-> 0]
    IN IF response.Error # None THEN brokerLogDirs
       ELSE DirLoop([brokerLogDirs EXCEPT !.LogDirs = Slice(<<>>)],
                    response.LogDirs.Dirs, 1)

\* StoreBroker with the broker error kept from a failed broker stored before
StoreBrokerStickyError(res, response) ==
    LET failed == { id \in DOMAIN res : res[id].Error # None }
        brokerLogDirs == AggregateBroker(response)
    IN MapStore(res, response.BrokerMetadata.NodeID,
                IF failed # {} /\ brokerLogDirs.Error = None
                THEN [brokerLogDirs EXCEPT !.Error = res[CHOOSE id \in failed : TRUE].Error]
                ELSE brokerLogDirs)

\* StoreBroker where a failed broker discards what was aggregated before it
StoreBrokerAbort(res, response) ==
    MapStore(IF response.Error # None THEN EmptyMap ELSE res,
             response.BrokerMetadata.NodeID, AggregateBroker(response))

\* StoreBroker where an entry already in the map is kept
StoreBrokerKeepFirst(res, response) ==
    IF response.BrokerMetadata.NodeID \in DOMAIN res THEN res
    ELSE MapStore(res, response.BrokerMetadata.NodeID, AggregateBroker(response))

\* StoreBroker where a failed broker is left out of the map
StoreBrokerSkipFailed(res, response) ==
    IF response.Error # None THEN res
    ELSE MapStore(res, response.BrokerMetadata.NodeID, AggregateBroker(response))

\* lines 48-102: one iteration of the outer loop
StoreBroker(res, response) ==
    MapStore(res, response.BrokerMetadata.NodeID, AggregateBroker(response))

\* the whole loop as a function of the responses
RECURSIVE BrokerLoop(_, _, _)
BrokerLoop(res, resps, i) ==
    IF i > Len(resps) THEN res
    ELSE BrokerLoop(StoreBroker(res, resps[i]), resps, i + 1)

NoReturn == [returned |-> FALSE, value |-> EmptyMap, err |-> None]

LdInit ==
    /\ ldPc = "idle"
    /\ responses = <<>>
    /\ idx = 1
    /\ result = EmptyMap
    /\ ldRet = NoReturn

\* line 45-47
DescribeLogDirs ==
    /\ ldPc = "idle"
    /\ responses' \in SeqsUpTo(IF ctxDone THEN CancelPool ELSE Responses, MaxBrokers)
    /\ idx' = 1
    /\ result' = EmptyMap
    /\ ldPc' = "loop"
    /\ UNCHANGED <<ldRet, ctxDone, ldRest>>

\* lines 48-102
LoopIteration ==
    /\ ldPc = "loop"
    /\ idx <= Len(responses)
    /\ result' = StoreBroker(result, responses[idx])
    /\ idx' = idx + 1
    /\ UNCHANGED <<ldPc, responses, ldRet, ctxDone, ldRest>>

\* ReturnLogDirs that fails the whole call when a broker has failed
ReturnLogDirsFailOnError ==
    /\ ldPc = "loop"
    /\ idx > Len(responses)
    /\ ldRet' = IF \E id \in DOMAIN result : result[id].Error # None
                THEN [returned |-> TRUE, value |-> EmptyMap, err |-> ConnErr]
                ELSE [returned |-> TRUE, value |-> result, err |-> None]
    /\ ldPc' = "done"
    /\ UNCHANGED <<responses, idx, result, ctxDone, ldRest>>

\* line 104
ReturnLogDirs ==
    /\ ldPc = "loop"
    /\ idx > Len(responses)
    /\ ldRet' = [returned |-> TRUE, value |-> result, err |-> None]
    /\ ldPc' = "done"
    /\ UNCHANGED <<responses, idx, result, ctxDone, ldRest>>

\* the caller's context is cancelled (client disconnect, deadline) while
\* logDirsByBroker is running; line 43 takes ctx and line 45 passes it on
CancelCtx ==
    /\ ldPc \in {"idle", "loop"}
    /\ ~ctxDone
    /\ ctxDone' = TRUE
    /\ UNCHANGED <<ldPc, responses, idx, result, ldRet, ldRest>>

----------------------------------------------------------------------------
(* Reassignment translation: ListPartitionReassignments and                *)
(* AlterPartitionAssignments of owl.Service                                *)

MaxReTopics == 2
MaxReParts == 2

\* (*kerr.Error).Error(): the text of a protocol error, never empty
KerrText(e) ==
    CASE e.kerr = 3 -> "UNKNOWN_TOPIC_OR_PARTITION: This server does not host this topic-partition."
      [] e.kerr = 39 -> "INVALID_REPLICA_ASSIGNMENT: Replica assignment is invalid."
      [] e.kerr = 41 -> "NOT_CONTROLLER: This is not the correct controller for this cluster."
      [] e.kerr = 56 -> "KAFKA_STORAGE_ERROR: Disk error when trying to access log file on the disk."
      [] OTHER -> "UNKNOWN_SERVER_ERROR: The server experienced an unexpected error when processing the request."

\* fmt.Errorf("<msg>: %w", err)
Wrap(msg, err) == Some([msg |-> msg, cause |-> err[1]])

TopLevelCodes == {0, 41, 99}
ReTopicNames == {"orders", "payments", "audit"}

\* partitions of a kmsg.ListPartitionReassignmentsResponse
ListParts ==
    { [Partition |-> 0, AddingReplicas |-> <<4>>, RemovingReplicas |-> <<1>>,
       Replicas |-> <<1, 2, 3, 4>>],
      [Partition |-> 1, AddingReplicas |-> <<>>, RemovingReplicas |-> <<>>,
       Replicas |-> <<2, 3>>],
      [Partition |-> 2, AddingReplicas |-> <<5, 6>>, RemovingReplicas |-> <<2, 3>>,
       Replicas |-> <<2, 3, 5, 6>>] }

\* partitions of a kmsg.AlterPartitionAssignmentsResponse
AlterParts ==
    { [Partition |-> 0, ErrorCode |-> 0, ErrorMessage |-> None],
      [Partition |-> 1, ErrorCode |-> 39, ErrorMessage |-> Some("replica 9 is unknown")],
      [Partition |-> 2, ErrorCode |-> 99, ErrorMessage |-> None] }

\* the sequences of at most n elements of S with pairwise different keys:
\* a response names each topic once, and each partition once per topic
RECURSIVE DistinctSeqsUpTo(_, _, _)
DistinctSeqsUpTo(S, key, n) ==
    IF n = 0 THEN { <<>> }
    ELSE LET shorter == DistinctSeqsUpTo(S, key, n - 1)
         IN shorter \cup
            UNION { { Append(s, x) :
                        x \in { y \in S : \A i \in 1..(n - 1) : key[s[i]] # key[y] } } :
                    s \in { t \in shorter : Len(t) = n - 1 } }

RawTopics(parts) ==
    LET partLists == DistinctSeqsUpTo(parts, [x \in parts |-> x.Partition], MaxReParts)
        topics == { Topic(n, ps) : n \in ReTopicNames, ps \in partLists }
    IN DistinctSeqsUpTo(topics, [t \in topics |-> t.Topic], MaxReTopics)

\* what a kafkaSvc call hands back: an error and no response, or a response
Outcomes(parts) ==
    { [err |-> ConnErr, res |-> None] }
    \cup { [err |-> None, res |-> Some([ErrorCode |-> c, Topics |-> ts])] :
              c \in TopLevelCodes, ts \in RawTopics(parts) }

\* the caller's intents; they are handed to kafkaSvc and not read again
AlterRequests ==
    { <<>>,
      <<[Topic |-> "orders", Partitions |-> <<[Partition |-> 0, Replicas |-> <<2, 3, 4>>]>>]>> }

\* ListPartition with the removing replicas copied into AddingReplicas too
ListPartitionCopied(partition) ==
    [PartitionID |-> partition.Partition,
     AddingReplicas |-> partition.RemovingReplicas,
     RemovingReplicas |-> partition.RemovingReplicas,
     Replicas |-> partition.RemovingReplicas]

\* ListPartitionReassignments, lines 806-813: one partition of the listing
ListPartition(partition) ==
    [PartitionID |-> partition.Partition,
     AddingReplicas |-> partition.AddingReplicas,
     RemovingReplicas |-> partition.RemovingReplicas,
     Replicas |-> partition.RemovingReplicas]

\* lines 805-814
RECURSIVE ListPartitionLoop(_, _, _)
ListPartitionLoop(partitionAssignments, partitions, j) ==
    IF j > Len(partitions) THEN partitionAssignments
    ELSE ListPartitionLoop(Append1(partitionAssignments, ListPartition(partitions[j])),
                           partitions, j + 1)

\* lines 803-819
RECURSIVE ListTopicLoop(_, _, _)
ListTopicLoop(topicReassignments, topics, i) ==
    IF i > Len(topics) THEN topicReassignments
    ELSE ListTopicLoop(
            Append1(topicReassignments,
                    [TopicName |-> topics[i].Topic,
                     Partitions |-> ListPartitionLoop(Slice(<<>>), topics[i].Partitions, 1)]),
            topics, i + 1)

\* ListPartitionReassignments without the check of the top-level error code
ListPartitionReassignmentsNoCodeCheck(raw) ==
    IF raw.err # None
    THEN [res |-> NilSlice,
          err |-> Wrap("failed to list partition reassignments", raw.err)]
    ELSE [res |-> ListTopicLoop(Slice(<<>>), raw.res[1].Topics, 1), err |-> None]

\* lines 792-822
ListPartitionReassignments(raw) ==
    IF raw.err # None
    THEN [res |-> NilSlice,
          err |-> Wrap("failed to list partition reassignments", raw.err)]
    ELSE LET reassignments == raw.res[1]
             err == ErrorForCode(reassignments.ErrorCode)
         IN IF err # None
            THEN [res |-> NilSlice,
                  err |-> Wrap("failed to list partition reassignments. Inner error", err)]
            ELSE [res |-> ListTopicLoop(Slice(<<>>), reassignments.Topics, 1),
                  err |-> None]

\* AlterPartition that loses the node's error message
AlterPartitionNoMessage(partition) ==
    LET kErr == ErrorForCode(partition.ErrorCode)
        errorStr == IF kErr # None THEN KerrText(kErr[1]) ELSE ""
    IN [PartitionID |-> partition.Partition,
        ErrorCode |-> errorStr,
        ErrorMessage |-> None]

\* AlterPartitionAssignments, lines 852-864: one partition of the response
AlterPartition(partition) ==
    LET kErr == ErrorForCode(partition.ErrorCode)
        errorStr == IF kErr # None THEN KerrText(kErr[1]) ELSE ""
    IN [PartitionID |-> partition.Partition,
        ErrorCode |-> errorStr,
        ErrorMessage |-> partition.ErrorMessage]

\* AlterPartitionLoop with errorStr declared outside the loop: a partition
\* without an error inherits the text of the one before it
RECURSIVE AlterPartitionLoopCarry(_, _, _)
AlterPartitionLoopCarry(partitions, in, j) ==
    IF j > Len(in) THEN partitions
    ELSE LET kErr == ErrorForCode(in[j].ErrorCode)
             errorStr == IF kErr # None THEN KerrText(kErr[1])
                         ELSE IF j > 1 THEN partitions.elems[j - 1].ErrorCode
                         ELSE ""
         IN AlterPartitionLoopCarry(
                Append1(partitions, [PartitionID |-> in[j].Partition,
                                     ErrorCode |-> errorStr,
                                     ErrorMessage |-> in[j].ErrorMessage]),
                in, j + 1)

\* lines 850-865; partitions[j] = ... on a slice made with the final length
RECURSIVE AlterPartitionLoop(_, _, _)
AlterPartitionLoop(partitions, in, j) ==
    IF j > Len(in) THEN partitions
    ELSE AlterPartitionLoop(Append1(partitions, AlterPartition(in[j])), in, j + 1)

\* lines 848-870
RECURSIVE AlterTopicLoop(_, _, _)
AlterTopicLoop(res, topics, i) ==
    IF i > Len(topics) THEN res
    ELSE AlterTopicLoop(
            Append1(res,
                    [TopicName |-> topics[i].Topic,
                     Partitions |-> AlterPartitionLoop(Slice(<<>>), topics[i].Partitions, 1)]),
            topics, i + 1)

\* lines 838-873
AlterPartitionAssignments(raw) ==
    IF raw.err # None
    THEN [res |-> NilSlice, err |-> Wrap("failed to reassign partitions", raw.err)]
    ELSE LET kRes == raw.res[1]
             err == ErrorForCode(kRes.ErrorCode)
         IN IF err # None
            THEN [res |-> NilSlice,
                  err |-> Wrap("failed to reassign partitions. Inner error", err)]
            ELSE [res |-> AlterTopicLoop(Slice(<<>>), kRes.Topics, 1), err |-> None]

\* line 793: s.kafkaSvc.ListPartitionReassignments(ctx)
ListCall ==
    /\ rePc = "idle"
    /\ reOp' = "list"
    /\ reReq' = None
    /\ reRaw' \in Outcomes(ListParts)
    /\ rePc' = "called"
    /\ UNCHANGED <<reRet, reRest>>

\* lines 794-821
ListReturn ==
    /\ rePc = "called"
    /\ reOp = "list"
    /\ reRet' = ListPartitionReassignments(reRaw)
    /\ rePc' = "done"
    /\ UNCHANGED <<reOp, reReq, reRaw, reRest>>

\* line 839: s.kafkaSvc.AlterPartitionAssignments(ctx, topics)
AlterCall ==
    /\ rePc = "idle"
    /\ reOp' = "alter"
    /\ reReq' \in { Some(t) : t \in AlterRequests }
    /\ reRaw' \in Outcomes(AlterParts)
    /\ rePc' = "called"
    /\ UNCHANGED <<reRet, reRest>>

\* lines 840-872
AlterReturn ==
    /\ rePc = "called"
    /\ reOp = "alter"
    /\ reRet' = AlterPartitionAssignments(reRaw)
    /\ rePc' = "done"
    /\ UNCHANGED <<reOp, reReq, reRaw, reRest>>

----------------------------------------------------------------------------
(* The handlers of package api: handleGetTopics, handleGetPartitions,      *)
(* handleGetTopicConfig, handleGetTopicConsumers (handle_topics.go) and    *)
(* handleGetConsumerGroups, and the hooks they consult                     *)

MaxResources == 2

StatusOK == 200
StatusForbidden == 403
StatusInternalServerError == 500

ResourceNames == {"orders", "payments", "audit"}
OverviewOps == {"topics", "groups"}
TopicViewOps == {"partitions", "config", "consumers"}

\* a default CanSeeConsumerGroup that hides every group
DefaultDenyConsumerGroup(groupName) == [ok |-> FALSE, err |-> None]

\* defaultHooks: every check allows, every action is allowed
DefaultCanSeeTopic(topicName) == [ok |-> TRUE, err |-> None]
DefaultCanViewTopicPartitions(topicName) == [ok |-> TRUE, err |-> None]
DefaultCanViewTopicConfig(topicName) == [ok |-> TRUE, err |-> None]
DefaultCanViewTopicConsumers(topicName) == [ok |-> TRUE, err |-> None]
DefaultAllowedTopicActions(topicName) == [actions |-> Slice(<<"all">>), err |-> None]
DefaultCanSeeConsumerGroup(groupName) == [ok |-> TRUE, err |-> None]
DefaultAllowedConsumerGroupActions(groupName) == [actions |-> Slice(<<"all">>), err |-> None]
DefaultCanListACLs == [ok |-> TRUE, err |-> None]
DefaultCanPatchPartitionReassignments == [ok |-> TRUE, err |-> None]
DefaultCanPatchConfigs == [ok |-> TRUE, err |-> None]

\* newDefaultHooks
DefaultHooks == [kind |-> "default"]

\* Hooks attached from outside: each check answers true, false or fails
\* with a *rest.Error of its own; each allowed-actions hook answers a list
\* or fails.
HookErr == [Status |-> StatusForbidden, Message |-> "policy backend unavailable"]
CheckAnswers ==
    { [ok |-> TRUE, err |-> None], [ok |-> FALSE, err |-> None],
      [ok |-> FALSE, err |-> Some(HookErr)] }
ActionsOf(name) ==
    CASE name = "orders" -> Slice(<<"all">>)
      [] name = "payments" -> Slice(<<"viewMessages", "viewConfig">>)
      [] OTHER -> Slice(<<>>)
ActionAnswers(name) ==
    { [actions |-> ActionsOf(name), err |-> None],
      [actions |-> NilSlice, err |-> Some(HookErr)] }
AllowAll == [n \in ResourceNames |-> [ok |-> TRUE, err |-> None]]
\* the hooks of a request for an overview
OverviewHooks ==
    { [kind |-> "custom", canSee |-> see, allowed |-> act, canView |-> AllowAll] :
        see \in [ResourceNames -> CheckAnswers],
        act \in { f \in [ResourceNames -> UNION { ActionAnswers(n) : n \in ResourceNames }] :
                    \A n \in ResourceNames : f[n] \in ActionAnswers(n) } }
\* the hooks of a request for one topic
TopicViewHooks ==
    { [kind |-> "custom", canSee |-> AllowAll,
       allowed |-> [n \in ResourceNames |-> [actions |-> ActionsOf(n), err |-> None]],
       canView |-> view] :
        view \in [ResourceNames -> CheckAnswers] }

\* api.Hooks.Owl.<hook>(ctx, name)
CanSeeTopic(hooks, name) ==
    IF hooks.kind = "default" THEN DefaultCanSeeTopic(name) ELSE hooks.canSee[name]
AllowedTopicActions(hooks, name) ==
    IF hooks.kind = "default" THEN DefaultAllowedTopicActions(name) ELSE hooks.allowed[name]
CanSeeConsumerGroup(hooks, name) ==
    IF hooks.kind = "default" THEN DefaultCanSeeConsumerGroup(name) ELSE hooks.canSee[name]
AllowedConsumerGroupActions(hooks, name) ==
    IF hooks.kind = "default" THEN DefaultAllowedConsumerGroupActions(name)
    ELSE hooks.allowed[name]
CanViewTopicPartitions(hooks, name) ==
    IF hooks.kind = "default" THEN DefaultCanViewTopicPartitions(name) ELSE hooks.canView[name]
CanViewTopicConfig(hooks, name) ==
    IF hooks.kind = "default" THEN DefaultCanViewTopicConfig(name) ELSE hooks.canView[name]
CanViewTopicConsumers(hooks, name) ==
    IF hooks.kind = "default" THEN DefaultCanViewTopicConsumers(name) ELSE hooks.canView[name]

\* what api.OwlSvc hands back
SvcErr == Some("kafka: request failed")
SvcRestErr == Some([Status |-> StatusInternalServerError, Message |-> "Could not describe topic"])
\* a TopicSummary or a ConsumerGroupOverview as the service built it
Resource(name) == [Name |-> name, AllowedActions |-> NilSlice]
OverviewOutcomes ==
    { [err |-> SvcErr, items |-> <<>>] }
    \cup { [err |-> None, items |-> [i \in Indices(names) |-> Resource(names[i])]] :
             names \in DistinctSeqsUpTo(ResourceNames, [n \in ResourceNames |-> n],
                                        MaxResources) }
Detail(name, parts) == [TopicName |-> name, Partitions |-> parts]
DetailOutcomes ==
    { [err |-> SvcRestErr, items |-> <<>>] }
    \cup { [err |-> None, items |-> d] :
             d \in { <<>>, <<Detail("orders", <<0, 1>>)>>, <<Detail("payments", <<>>)>>,
                     <<Detail("orders", <<0, 1>>), Detail("payments", <<0>>)>> } }
ConfigOutcomes ==
    { [err |-> SvcRestErr, items |-> None],
      [err |-> None, items |-> Some([TopicName |-> "orders", ConfigEntries |-> <<"retention.ms">>])] }
ConsumerOutcomes ==
    { [err |-> SvcErr, items |-> NilSlice],
      [err |-> None, items |-> Slice(<<>>)],
      [err |-> None, items |-> Slice(<<[GroupID |-> "billing", SummedLag |-> 12]>>)] }

\* the request before its handler runs
NewRequest(op, hooks, topicName) ==
    [pc |-> "start", op |-> op, hooks |-> hooks, topicName |-> topicName,
     svc |-> None, objs |-> <<>>, idx |-> 1, visible |-> <<>>,
     calls |-> <<>>, sent |-> <<>>]
NoRequest == [pc |-> "idle", op |-> "none"]

\* a call that is made twice
InvokeTwice(req, fn, arg) ==
    [req EXCEPT !.calls = @ \o <<[fn |-> fn, arg |-> arg], [fn |-> fn, arg |-> arg]>>]

\* a call of a hook or of api.OwlSvc, noted in the order it was made
Invoke(req, fn, arg) == [req EXCEPT !.calls = Append(@, [fn |-> fn, arg |-> arg])]

\* SendRESTError without the return that follows it
SendRESTErrorNoReturn(req, restErr) ==
    [req EXCEPT !.sent = Append(@, [kind |-> "error", status |-> restErr.Status,
                                    message |-> restErr.Message, body |-> None])]

\* rest.SendRESTError(w, r, logger, restErr) followed by return
SendRESTError(req, restErr) ==
    [req EXCEPT !.sent = Append(@, [kind |-> "error", status |-> restErr.Status,
                                    message |-> restErr.Message, body |-> None]),
                !.pc = "done"]

\* rest.SendResponse(w, r, logger, status, body) at the end of the handler
SendResponse(req, status, body) ==
    [req EXCEPT !.sent = Append(@, [kind |-> "ok", status |-> status,
                                    message |-> "", body |-> Some(body)]),
                !.pc = "done"]

OverviewMessage(op) ==
    IF op = "topics" THEN "Could not list topics from Kafka cluster"
    ELSE "Could not get consumer groups overview"
OverviewCallName(op) ==
    IF op = "topics" THEN "GetTopicsOverview" ELSE "GetConsumerGroupsOverview"

\* handleGetTopics lines 22-34, handleGetConsumerGroups lines 290-301
OverviewCalled(req, out) ==
    LET called == [Invoke(req, OverviewCallName(req.op), "") EXCEPT !.svc = Some(out)]
    IN IF out.err # None
       THEN SendRESTError(called, [Status |-> StatusInternalServerError,
                                   Message |-> OverviewMessage(req.op)])
       ELSE [called EXCEPT !.objs = out.items, !.idx = 1, !.visible = <<>>, !.pc = "loop"]

\* TopicsIteration that appends the topic whatever CanSeeTopic answered
TopicsIterationNoFilter(req) ==
    LET name == req.objs[req.idx].Name
        canSee == CanSeeTopic(req.hooks, name)
        checked == Invoke(req, "CanSeeTopic", name)
    IN IF canSee.err # None THEN SendRESTError(checked, canSee.err[1])
       ELSE LET kept == [checked EXCEPT !.visible = Append(@, req.idx)]
                allowed == AllowedTopicActions(req.hooks, name)
                annotated == [Invoke(kept, "AllowedTopicActions", name) EXCEPT
                                 !.objs[req.idx].AllowedActions = allowed.actions]
            IN IF allowed.err # None THEN SendRESTError(annotated, allowed.err[1])
               ELSE [annotated EXCEPT !.idx = @ + 1]

\* TopicsIteration that appends the hook's actions to those the topic holds
TopicsIterationAppendActions(req) ==
    LET name == req.objs[req.idx].Name
        canSee == CanSeeTopic(req.hooks, name)
        checked == Invoke(req, "CanSeeTopic", name)
    IN IF canSee.err # None THEN SendRESTError(checked, canSee.err[1])
       ELSE LET kept == IF canSee.ok
                        THEN [checked EXCEPT !.visible = Append(@, req.idx)]
                        ELSE checked
                allowed == AllowedTopicActions(req.hooks, name)
                annotated == [Invoke(kept, "AllowedTopicActions", name) EXCEPT
                                 !.objs[req.idx].AllowedActions =
                                     Slice(@.elems \o allowed.actions.elems)]
            IN IF allowed.err # None THEN SendRESTError(annotated, allowed.err[1])
               ELSE [annotated EXCEPT !.idx = @ + 1]

\* handleGetTopics lines 35-53: one iteration; topics are pointers, so the
\* visible list holds the position of the topic and the assignment of line
\* 48 writes the object the service returned
TopicsIteration(req) ==
    LET name == req.objs[req.idx].Name
        canSee == CanSeeTopic(req.hooks, name)
        checked == Invoke(req, "CanSeeTopic", name)
    IN IF canSee.err # None THEN SendRESTError(checked, canSee.err[1])
       ELSE LET kept == IF canSee.ok
                        THEN [checked EXCEPT !.visible = Append(@, req.idx)]
                        ELSE checked
                allowed == AllowedTopicActions(req.hooks, name)
                annotated == [Invoke(kept, "AllowedTopicActions", name) EXCEPT
                                 !.objs[req.idx].AllowedActions = allowed.actions]
            IN IF allowed.err # None THEN SendRESTError(annotated, allowed.err[1])
               ELSE [annotated EXCEPT !.idx = @ + 1]

\* handleGetTopics lines 55-58
TopicsRespond(req) ==
    SendResponse(req, StatusOK,
                 [Topics |-> [i \in Indices(req.visible) |-> req.objs[req.visible[i]]]])

\* GroupsIteration that appends the element of describedGroups instead of
\* the annotated copy
GroupsIterationStaleCopy(req) ==
    LET group == req.objs[req.idx]
        canSee == CanSeeConsumerGroup(req.hooks, group.Name)
        checked == Invoke(req, "CanSeeConsumerGroup", group.Name)
    IN IF canSee.err # None THEN SendRESTError(checked, canSee.err[1])
       ELSE IF ~canSee.ok THEN [checked EXCEPT !.idx = @ + 1]
       ELSE LET allowed == AllowedConsumerGroupActions(req.hooks, group.Name)
                asked == Invoke(checked, "AllowedConsumerGroupActions", group.Name)
            IN IF allowed.err # None THEN SendRESTError(asked, allowed.err[1])
               ELSE [asked EXCEPT !.visible = Append(@, group), !.idx = @ + 1]

\* handleGetConsumerGroups lines 302-319: one iteration; groups are values,
\* so group is a copy and the visible list holds the annotated copy
GroupsIteration(req) ==
    LET group == req.objs[req.idx]
        canSee == CanSeeConsumerGroup(req.hooks, group.Name)
        checked == Invoke(req, "CanSeeConsumerGroup", group.Name)
    IN IF canSee.err # None THEN SendRESTError(checked, canSee.err[1])
       ELSE IF ~canSee.ok THEN [checked EXCEPT !.idx = @ + 1]
       ELSE LET allowed == AllowedConsumerGroupActions(req.hooks, group.Name)
                asked == Invoke(checked, "AllowedConsumerGroupActions", group.Name)
            IN IF allowed.err # None THEN SendRESTError(asked, allowed.err[1])
               ELSE [asked EXCEPT
                        !.visible = Append(@, [group EXCEPT !.AllowedActions = allowed.actions]),
                        !.idx = @ + 1]

\* handleGetConsumerGroups lines 321-324
GroupsRespond(req) == SendResponse(req, StatusOK, [ConsumerGroups |-> req.visible])

ViewHookName(op) ==
    CASE op = "partitions" -> "CanViewTopicPartitions"
      [] op = "config" -> "CanViewTopicConfig"
      [] OTHER -> "CanViewTopicConsumers"
ViewHook(op, hooks, name) ==
    CASE op = "partitions" -> CanViewTopicPartitions(hooks, name)
      [] op = "config" -> CanViewTopicConfig(hooks, name)
      [] OTHER -> CanViewTopicConsumers(hooks, name)
ForbiddenMessage(op) ==
    IF op = "partitions" THEN "You don't have permissions to view partitions for that topic"
    ELSE "You don't have permissions to view the config for that topic"

\* ViewCheck without the `if !canView` branch
ViewCheckIgnoreDenial(req) ==
    LET canView == ViewHook(req.op, req.hooks, req.topicName)
        checked == Invoke(req, ViewHookName(req.op), req.topicName)
    IN IF canView.err # None THEN SendRESTError(checked, canView.err[1])
       ELSE [checked EXCEPT !.pc = "fetch"]

\* ViewCheck with the service asked for the data before the permission check
ViewCheckFetchFirst(req) ==
    LET canView == ViewHook(req.op, req.hooks, req.topicName)
        fetched == Invoke(req, IF req.op = "partitions" THEN "GetTopicDetails"
                               ELSE IF req.op = "config" THEN "GetTopicConfigs"
                               ELSE "ListTopicConsumers", req.topicName)
        checked == Invoke(fetched, ViewHookName(req.op), req.topicName)
    IN IF canView.err # None THEN SendRESTError(checked, canView.err[1])
       ELSE IF ~canView.ok
       THEN SendRESTError(checked, [Status |-> StatusForbidden,
                                    Message |-> ForbiddenMessage(req.op)])
       ELSE [checked EXCEPT !.pc = "fetch"]

\* handle_topics.go lines 73-88, 125-140, 166-181: the permission check
ViewCheck(req) ==
    LET canView == ViewHook(req.op, req.hooks, req.topicName)
        checked == Invoke(req, ViewHookName(req.op), req.topicName)
    IN IF canView.err # None THEN SendRESTError(checked, canView.err[1])
       ELSE IF ~canView.ok
       THEN SendRESTError(checked, [Status |-> StatusForbidden,
                                    Message |-> ForbiddenMessage(req.op)])
       ELSE [checked EXCEPT !.pc = "fetch"]

\* PartitionsFetched that only refuses an empty list of details
PartitionsFetchedAnyCount(req, out) ==
    LET called == [Invoke(req, "GetTopicDetails", req.topicName) EXCEPT !.svc = Some(out)]
    IN IF out.err # None THEN SendRESTError(called, out.err[1])
       ELSE IF Len(out.items) = 0
       THEN SendRESTError(called,
                [Status |-> StatusInternalServerError,
                 Message |-> "Internal server error in Kowl, please file a issue in GitHub if you face this issue. The backend logs will contain more information."])
       ELSE SendResponse(called, StatusOK,
                [TopicName |-> req.topicName, Partitions |-> out.items[1].Partitions])

\* handleGetPartitions lines 90-111
PartitionsFetched(req, out) ==
    LET called == [Invoke(req, "GetTopicDetails", req.topicName) EXCEPT !.svc = Some(out)]
    IN IF out.err # None THEN SendRESTError(called, out.err[1])
       ELSE IF Len(out.items) # 1
       THEN SendRESTError(called,
                [Status |-> StatusInternalServerError,
                 Message |-> "Internal server error in Kowl, please file a issue in GitHub if you face this issue. The backend logs will contain more information."])
       ELSE SendResponse(called, StatusOK,
                [TopicName |-> req.topicName, Partitions |-> out.items[1].Partitions])

\* handleGetTopicConfig lines 142-151
ConfigFetched(req, out) ==
    LET called == [Invoke(req, "GetTopicConfigs", req.topicName) EXCEPT !.svc = Some(out)]
    IN IF out.err # None THEN SendRESTError(called, out.err[1])
       ELSE SendResponse(called, StatusOK, [TopicDescription |-> out.items])

\* ConsumersFetched that answers 200 with no consumers when the service failed
ConsumersFetchedSwallow(req, out) ==
    LET called == [Invoke(req, "ListTopicConsumers", req.topicName) EXCEPT !.svc = Some(out)]
    IN SendResponse(called, StatusOK, [TopicName |-> req.topicName, Consumers |-> out.items])

\* handleGetTopicConsumers lines 183-199
ConsumersFetched(req, out) ==
    LET called == [Invoke(req, "ListTopicConsumers", req.topicName) EXCEPT !.svc = Some(out)]
    IN IF out.err # None
       THEN SendRESTError(called,
                [Status |-> StatusInternalServerError,
                 Message |-> "Could not list topic consumers for requested topic"])
       ELSE SendResponse(called, StatusOK,
                [TopicName |-> req.topicName, Consumers |-> out.items])

HInit ==
    /\ h = NoRequest
    /\ hRun = 1
    /\ hFirst = <<>>

\* a request for /topics or /consumer-groups arrives
RequestOverview ==
    /\ h.pc = "idle"
    /\ \E op \in OverviewOps, hooks \in {DefaultHooks} \cup OverviewHooks :
         h' = NewRequest(op, hooks, "")
    /\ UNCHANGED <<hRun, hFirst, hRest>>

\* a request for /topics/{topicName}/partitions, /configuration or /consumers
RequestTopicView ==
    /\ h.pc = "idle"
    /\ \E op \in TopicViewOps, hooks \in {DefaultHooks} \cup TopicViewHooks,
          topicName \in {"orders", "payments"} :
         h' = NewRequest(op, hooks, topicName)
    /\ UNCHANGED <<hRun, hFirst, hRest>>

\* GetTopicsOverview / GetConsumerGroupsOverview returns
OverviewCall ==
    /\ h.pc = "start"
    /\ h.op \in OverviewOps
    /\ \E out \in OverviewOutcomes : h' = OverviewCalled(h, out)
    /\ UNCHANGED <<hRun, hFirst, hRest>>

TopicsLoop ==
    /\ h.pc = "loop"
    /\ h.op = "topics"
    /\ h.idx <= Len(h.objs)
    /\ h' = TopicsIteration(h)
    /\ UNCHANGED <<hRun, hFirst, hRest>>

TopicsDone ==
    /\ h.pc = "loop"
    /\ h.op = "topics"
    /\ h.idx > Len(h.objs)
    /\ h' = TopicsRespond(h)
    /\ UNCHANGED <<hRun, hFirst, hRest>>

GroupsLoop ==
    /\ h.pc = "loop"
    /\ h.op = "groups"
    /\ h.idx <= Len(h.objs)
    /\ h' = GroupsIteration(h)
    /\ UNCHANGED <<hRun, hFirst, hRest>>

GroupsDone ==
    /\ h.pc = "loop"
    /\ h.op = "groups"
    /\ h.idx > Len(h.objs)
    /\ h' = GroupsRespond(h)
    /\ UNCHANGED <<hRun, hFirst, hRest>>

TopicViewCheck ==
    /\ h.pc = "start"
    /\ h.op \in TopicViewOps
    /\ h' = ViewCheck(h)
    /\ UNCHANGED <<hRun, hFirst, hRest>>

PartitionsFetch ==
    /\ h.pc = "fetch"
    /\ h.op = "partitions"
    /\ \E out \in DetailOutcomes : h' = PartitionsFetched(h, out)
    /\ UNCHANGED <<hRun, hFirst, hRest>>

ConfigFetch ==
    /\ h.pc = "fetch"
    /\ h.op = "config"
    /\ \E out \in ConfigOutcomes : h' = ConfigFetched(h, out)
    /\ UNCHANGED <<hRun, hFirst, hRest>>

ConsumersFetch ==
    /\ h.pc = "fetch"
    /\ h.op = "consumers"
    /\ \E out \in ConsumerOutcomes : h' = ConsumersFetched(h, out)
    /\ UNCHANGED <<hRun, hFirst, hRest>>

\* the same overview request is served again: same hooks, and the service
\* hands back the same aggregation result, objects included
OverviewAgain ==
    /\ h.pc = "done"
    /\ h.op \in OverviewOps
    /\ hRun = 1
    /\ hRun' = 2
    /\ hFirst' = h.sent
    /\ h' = OverviewCalled(NewRequest(h.op, h.hooks, ""),
                           [err |-> h.svc[1].err,
                            items |-> IF h.svc[1].err = None THEN h.objs ELSE <<>>])
    /\ UNCHANGED hRest

ReInit ==
    /\ rePc = "idle"
    /\ reOp = "none"
    /\ reReq = None
    /\ reRaw = None
    /\ reRet = None

CtxInit == ctxDone = FALSE

----------------------------------------------------------------------------
(* Concurrent calls.  Every call runs on its own goroutine; its locals are *)
(* in inflight[caller].  What a call reaches through a reference (the map  *)
(* made at log_dir_broker.go line 44, the *owl.TopicSummary values         *)
(* handleGetTopics ranges over) is in heap, and each cell records who has  *)
(* written it.                                                             *)

Callers == {"a", "b"}

NoCall == [kind |-> "idle", pc |-> "idle"]

Cell(val, by) == [val |-> val, by |-> by]
\* a write of caller p to the cell at addr
HeapWrite(hp, addr, val, p) ==
    MapStore(hp, addr, Cell(val, IF addr \in DOMAIN hp THEN hp[addr].by \cup {p} ELSE {p}))

\* a result map made once and kept for every call
MakeResultOnce(p) == <<"a", 0>>

\* line 44: result := make(map[int32]LogDirsByBroker), made in each call
MakeResult(p) == <<p, 0>>

\* GetTopicsOverview builds its summaries fresh in each call
NewTopicSummaries(p, items) == [i \in Indices(items) |-> <<p, i>>]

\* what the adapter hands to the concurrent calls
CcResponseLists ==
    { <<>>,
      <<Response(1, [Error |-> None, Dirs |-> <<dirA>>])>>,
      <<Response(1, [Error |-> ConnErr, Dirs |-> <<>>]),
        Response(2, [Error |-> None, Dirs |-> <<dirA, dirB>>])>>,
      <<Response(2, [Error |-> None, Dirs |-> <<dirFailed, dirA>>]),
        Response(2, [Error |-> None, Dirs |-> <<dirB>>])>> }

CcListOutcomes ==
    { [err |-> ConnErr, res |-> None],
      [err |-> None, res |-> Some([ErrorCode |-> 41, Topics |-> <<>>])],
      [err |-> None,
       res |-> Some([ErrorCode |-> 0,
                     Topics |-> <<Topic("orders",
                                        <<[Partition |-> 0, AddingReplicas |-> <<4>>,
                                           RemovingReplicas |-> <<1>>,
                                           Replicas |-> <<1, 2, 3, 4>>]>>)>>])] }

CcOverviewOutcomes ==
    { [err |-> SvcErr, items |-> <<>>],
      [err |-> None, items |-> <<Resource("orders")>>],
      [err |-> None, items |-> <<Resource("payments"), Resource("orders")>>] }

CcAllowed == [n \in ResourceNames |-> [actions |-> ActionsOf(n), err |-> None]]
CcHooks ==
    { DefaultHooks,
      [kind |-> "custom", canSee |-> AllowAll, allowed |-> CcAllowed, canView |-> AllowAll],
      [kind |-> "custom",
       canSee |-> [AllowAll EXCEPT !["orders"] = [ok |-> FALSE, err |-> None]],
       allowed |-> CcAllowed, canView |-> AllowAll],
      [kind |-> "custom", canSee |-> AllowAll,
       allowed |-> [CcAllowed EXCEPT !["orders"] = [actions |-> NilSlice,
                                                    err |-> Some(HookErr)]],
       canView |-> AllowAll] }

\* the calls in flight
Running == { q \in Callers : inflight[q].pc \notin {"idle", "done"} }
\* caller p starts the call with locals c; met notes which calls ran at the
\* same time as this one
Begin(p, c) ==
    [q \in Callers |->
        IF q = p THEN [c EXCEPT !.met = Running \ {p}]
        ELSE IF q \in Running THEN [inflight[q] EXCEPT !.met = @ \cup {p}]
        ELSE inflight[q]]

CcInit ==
    /\ inflight = [p \in Callers |-> NoCall]
    /\ heap = EmptyMap

\* log_dir_broker.go lines 44-47: the map is made, the adapter has answered
CcDescribeLogDirs(p) ==
    /\ inflight[p].pc = "idle"
    /\ \E resps \in CcResponseLists :
         inflight' = Begin(p, [kind |-> "logdirs", pc |-> "loop", responses |-> resps,
                               idx |-> 1, result |-> MakeResult(p), ret |-> NoReturn,
                               met |-> {}])
    /\ heap' = HeapWrite(heap, MakeResult(p), EmptyMap, p)
    /\ UNCHANGED ccRest

\* lines 48-102: one iteration of the loop over the responses
CcLoopIteration(p) ==
    LET c == inflight[p]
    IN /\ c.pc = "loop"
       /\ c.kind = "logdirs"
       /\ c.idx <= Len(c.responses)
       /\ heap' = HeapWrite(heap, c.result,
                            StoreBroker(heap[c.result].val, c.responses[c.idx]), p)
       /\ inflight' = [inflight EXCEPT ![p].idx = @ + 1]
       /\ UNCHANGED ccRest

\* line 104
CcReturnLogDirs(p) ==
    LET c == inflight[p]
    IN /\ c.pc = "loop"
       /\ c.kind = "logdirs"
       /\ c.idx > Len(c.responses)
       /\ inflight' = [inflight EXCEPT
                          ![p].ret = [returned |-> TRUE, value |-> heap[c.result].val,
                                      err |-> None],
                          ![p].pc = "done"]
       /\ UNCHANGED <<heap, ccRest>>

\* utils.ts line 793: the adapter has answered
CcListCall(p) ==
    /\ inflight[p].pc = "idle"
    /\ \E raw \in CcListOutcomes :
         inflight' = Begin(p, [kind |-> "list", pc |-> "called", raw |-> raw,
                               ret |-> None, met |-> {}])
    /\ UNCHANGED <<heap, ccRest>>

\* utils.ts lines 794-821: the translation works on locals only
CcListReturn(p) ==
    LET c == inflight[p]
    IN /\ c.pc = "called"
       /\ c.kind = "list"
       /\ inflight' = [inflight EXCEPT ![p].ret = Some(ListPartitionReassignments(c.raw)),
                                       ![p].pc = "done"]
       /\ UNCHANGED <<heap, ccRest>>

\* the handler's view of its request: the topics it ranges over are read
\* through their pointers
CcLoad(p) ==
    LET c == inflight[p]
    IN [c.req EXCEPT !.objs = [i \in Indices(c.topics) |-> heap[c.topics[i]].val]]

\* the handler's writes through the pointers, then its locals
RECURSIVE CcStoreTopics(_, _, _, _, _)
CcStoreTopics(hp, topics, objs, i, p) ==
    IF i > Len(topics) THEN hp
    ELSE CcStoreTopics(IF hp[topics[i]].val = objs[i] THEN hp
                       ELSE HeapWrite(hp, topics[i], objs[i], p),
                       topics, objs, i + 1, p)

\* a request for /topics arrives
CcRequestTopics(p) ==
    /\ inflight[p].pc = "idle"
    /\ \E hooks \in CcHooks :
         inflight' = Begin(p, [kind |-> "topics", pc |-> "start", topics |-> <<>>,
                               req |-> NewRequest("topics", hooks, ""), met |-> {}])
    /\ UNCHANGED <<heap, ccRest>>

\* handle_topics.go lines 22-34
CcOverviewCall(p) ==
    LET c == inflight[p]
    IN /\ c.pc = "start"
       /\ c.kind = "topics"
       /\ \E out \in CcOverviewOutcomes :
            LET topics == NewTopicSummaries(p, out.items)
                called == OverviewCalled(c.req, out)
            IN /\ heap' = CcStoreTopics([a \in DOMAIN heap \cup { topics[i] : i \in Indices(topics) } |->
                                            IF a \in DOMAIN heap THEN heap[a]
                                            ELSE Cell(NilSlice, {})],
                                        topics, out.items, 1, p)
               /\ inflight' = [inflight EXCEPT ![p].topics = topics,
                                               ![p].req = [called EXCEPT !.objs = <<>>],
                                               ![p].pc = called.pc]
       /\ UNCHANGED ccRest

\* lines 35-53: one iteration
CcTopicsLoop(p) ==
    LET c == inflight[p]
        req == CcLoad(p)
    IN /\ c.pc = "loop"
       /\ c.kind = "topics"
       /\ req.idx <= Len(req.objs)
       /\ LET next == TopicsIteration(req)
          IN /\ heap' = CcStoreTopics(heap, c.topics, next.objs, 1, p)
             /\ inflight' = [inflight EXCEPT ![p].req = [next EXCEPT !.objs = <<>>],
                                             ![p].pc = next.pc]
       /\ UNCHANGED ccRest

\* lines 55-58: the response is written from what the pointers lead to
CcTopicsDone(p) ==
    LET c == inflight[p]
        req == CcLoad(p)
    IN /\ c.pc = "loop"
       /\ c.kind = "topics"
       /\ req.idx > Len(req.objs)
       /\ inflight' = [inflight EXCEPT ![p].req = [TopicsRespond(req) EXCEPT !.objs = <<>>],
                                       ![p].pc = "done"]
       /\ UNCHANGED <<heap, ccRest>>

----------------------------------------------------------------------------
(* The ErrorBoundary component, unnamed/part_000.  A text is a sequence of *)
(* tokens, so that startsWith and substr are a prefix test and a drop.     *)
(* componentDidCatch and dismiss run to completion; the callbacks of a     *)
(* StackTrace.fromError promise run later, each in a step of its own.      *)

MaxCatches == 2

ToLowerCase(str) ==
    CASE str = "Error" -> "error"
      [] str = "Error:" -> "error:"
      [] str = "TypeError" -> "typeerror"
      [] str = "TypeError:" -> "typeerror:"
      [] OTHER -> str

StartsWith(text, prefix) ==
    Len(prefix) <= Len(text) /\ SubSeq(text, 1, Len(prefix)) = prefix
Drop(text, n) == SubSeq(text, n + 1, Len(text))

JsError(name, msg, stack) == [name |-> name, message |-> msg, stack |-> stack]
\* what a child component can throw: null, an error without a stack, errors
\* with a stack
CaughtErrors ==
    { None,
      Some(JsError("Error", <<>>, <<>>)),
      Some(JsError("Error", <<"boom">>, <<"Error:", "boom", "at App">>)),
      Some(JsError("TypeError", <<"x is undefined">>,
                   <<"TypeError:", "x is undefined", "at render">>)) }
ErrorInfos ==
    { None, Some([componentStack |-> <<"in App">>]), Some([componentStack |-> <<>>]) }
\* whether building the Environment and Location items throws
PageStates == { [envOk |-> TRUE, locationOk |-> TRUE], [envOk |-> FALSE, locationOk |-> FALSE] }
\* how a StackTrace.fromError promise is fulfilled
DecodedFrames == { <<"at App (App.tsx:12)">>, <<>> }

Str(name, text) == [name |-> name, kind |-> "string", value |-> text]
\* the closure of line 71, which reads dataHolder
Func(name, holder) == [name |-> name, kind |-> "func", holder |-> holder]

\* lines 91-94: the raw stack without its "Error:" prefix and its message
RawStack(error) ==
    LET s0 == error.stack
        s1 == IF ToLowerCase(Head(s0)) = "error:" THEN Drop(s0, 1) ELSE s0
    IN IF error.message # <<>> /\ StartsWith(s1, error.message)
       THEN Drop(s1, Len(error.message))
       ELSE s1

\* lines 54-62
TypeAndMessage(error) ==
    (IF error # None /\ error[1].name # "" /\ ToLowerCase(error[1].name) # "error"
     THEN <<Str("Type", <<error[1].name>>)>> ELSE <<>>)
    \o (IF error # None /\ error[1].message # <<>>
        THEN <<Str("Message", error[1].message)>>
        ELSE <<Str("Message", <<"(no message)">>)>>)

\* line 65: this.error?.stack
HasStack(error) == error # None /\ error[1].stack # <<>>

\* lines 66-96
StackItems(error, holder) ==
    IF HasStack(error)
    THEN <<Func("Stack (Decoded)", holder), Str("Stack (Raw)", RawStack(error[1]))>>
    ELSE <<>>

\* lines 98-106
ComponentsItem(errorInfo) ==
    IF errorInfo # None /\ errorInfo[1].componentStack # <<>>
    THEN Str("Components", errorInfo[1].componentStack)
    ELSE Str("Components",
             IF errorInfo # None
             THEN <<"(componentStack not set) errorInfo as Json: ", "{componentStack: ''}">>
             ELSE <<"(errorInfo was not set)">>)

\* lines 109-135
PageItems(page) ==
    <<Str("Environment", IF page.envOk THEN <<"REACT_APP_KOWL_GIT_SHA: abc123">>
                         ELSE <<"(error retreiving env list)">>),
      Str("Location", IF page.locationOk THEN <<"Protocol: https:", "Path: /topics">>
                      ELSE <<"(error printing location, please include the url in your bug report)">>)>>

\* lines 189-199: getStringFromInfo; String() of the placeholder element
GetStringFromInfo(info, decodes) ==
    IF info.kind = "string" THEN info.value
    ELSE IF decodes[info.holder].value = None THEN <<"[object Object]">>
    ELSE decodes[info.holder].value[1]

\* lines 40-45
EbInit ==
    eb = [hasError |-> FALSE, error |-> None, errorInfo |-> None, decodingDone |-> FALSE,
          infoItems |-> <<>>, decodes |-> <<>>, clipboard |-> None, caught |-> 0]

\* lines 47-138
ComponentDidCatch ==
    /\ eb.caught < MaxCatches
    /\ \E error \in CaughtErrors, errorInfo \in ErrorInfos, page \in PageStates :
         LET holder == Len(eb.decodes) + 1
         IN eb' = [eb EXCEPT
                      !.error = error,
                      !.errorInfo = errorInfo,
                      !.decodingDone = FALSE,
                      !.infoItems = TypeAndMessage(error) \o StackItems(error, holder)
                                    \o <<ComponentsItem(errorInfo)>> \o PageItems(page),
                      !.decodes = IF HasStack(error)
                                  THEN Append(@, [value |-> None, state |-> "pending"])
                                  ELSE @,
                      !.hasError = TRUE,
                      !.caught = @ + 1]
    /\ UNCHANGED ebRest

\* lines 79-82: the promise of decode d is fulfilled
DecodeSuccess(d) ==
    /\ d <= Len(eb.decodes)
    /\ eb.decodes[d].state = "pending"
    /\ \E frames \in DecodedFrames :
         eb' = [eb EXCEPT !.decodes[d] = [value |-> Some(frames), state |-> "fulfilled"],
                          !.decodingDone = TRUE]
    /\ UNCHANGED ebRest

\* lines 83-87: the promise of decode d is rejected
DecodeError(d) ==
    /\ d <= Len(eb.decodes)
    /\ eb.decodes[d].state = "pending"
    /\ eb' = [eb EXCEPT !.decodes[d] = [value |-> Some(<<"Unable to decode stacktrace", "timeout">>),
                                        state |-> "rejected"],
                        !.decodingDone = TRUE]
    /\ UNCHANGED ebRest

\* lines 140-150, behind the Copy Info button of lines 171-176 (with a
\* clipboard available)
CopyError ==
    /\ eb.hasError
    /\ eb.decodingDone
    /\ eb' = [eb EXCEPT !.clipboard =
                 Some([i \in Indices(eb.infoItems) |->
                          <<eb.infoItems[i].name,
                            GetStringFromInfo(eb.infoItems[i], eb.decodes)>>])]
    /\ UNCHANGED ebRest

\* lines 152-157, behind the Dismiss button
Dismiss ==
    /\ eb.hasError
    /\ eb' = [eb EXCEPT !.error = None, !.errorInfo = None, !.hasError = FALSE,
                        !.decodingDone = FALSE]
    /\ UNCHANGED ebRest

\* the decode d settles, one way or the other
Settle(d) == DecodeSuccess(d) \/ DecodeError(d)

----------------------------------------------------------------------------
(* loadVersionInfo, unnamed/part_003 *)

\* os.Getenv: the value of the variable, "" when it is unset
ShaValues == {"", "abc123", "9f3c1d7"}
RefValues == {"", "master", "v1.2.0"}
BusinessValues == {"", "b77e0a1"}
TimestampValues == {"", "1600000000", "not-a-number"}
Environments ==
    { [REACT_APP_KOWL_GIT_SHA |-> sha, REACT_APP_KOWL_GIT_REF |-> ref,
       REACT_APP_KOWL_BUSINESS_GIT_SHA |-> bsha, REACT_APP_KOWL_BUSINESS_GIT_REF |-> bref,
       REACT_APP_KOWL_TIMESTAMP |-> ts] :
        sha \in ShaValues, ref \in RefValues, bsha \in BusinessValues,
        bref \in BusinessValues, ts \in TimestampValues }

\* time.Time{}
ZeroTime == [unix |-> None]

ViInit == vi = [pc |-> "idle", env |-> None, version |-> None, timestamp |-> None]

\* the process starts in some environment and calls loadVersionInfo
StartKowl ==
    /\ vi.pc = "idle"
    /\ \E env \in Environments : vi' = [vi EXCEPT !.pc = "called", !.env = Some(env)]
    /\ UNCHANGED viRest

\* lines 22-28
ReadVersion ==
    /\ vi.pc = "called"
    /\ LET env == vi.env[1]
       IN vi' = [vi EXCEPT
                    !.version = Some([gitSha |-> env.REACT_APP_KOWL_GIT_SHA,
                                      gitRef |-> env.REACT_APP_KOWL_GIT_REF,
                                      gitShaBusiness |-> env.REACT_APP_KOWL_BUSINESS_GIT_SHA,
                                      gitRefBusiness |-> env.REACT_APP_KOWL_BUSINESS_GIT_REF,
                                      timestamp |-> ZeroTime]),
                    !.pc = "read"]
    /\ UNCHANGED viRest

\* lines 30-34
DefaultGitSha ==
    /\ vi.pc = "read"
    /\ vi' = [vi EXCEPT
                 !.version[1].gitSha = IF @ = "" THEN "dev" ELSE @,
                 !.timestamp = Some(vi.env[1].REACT_APP_KOWL_TIMESTAMP),
                 !.pc = "defaulted"]
    /\ UNCHANGED viRest

\* line 37: the statement that stops the function; lines 39-57 are not reached
PanicTodo ==
    /\ vi.pc = "defaulted"
    /\ vi' = [vi EXCEPT !.pc = "panicked"]
    /\ UNCHANGED viRest

InitLogDirs == LdInit /\ CtxInit /\ ReInit /\ HInit /\ CcInit /\ EbInit /\ ViInit

NextLogDirs == DescribeLogDirs \/ LoopIteration \/ ReturnLogDirs

SpecLogDirs == InitLogDirs /\ [][NextLogDirs]_vars

InitReassign == LdInit /\ CtxInit /\ ReInit /\ HInit /\ CcInit /\ EbInit /\ ViInit

NextReassign == ListCall \/ ListReturn \/ AlterCall \/ AlterReturn

SpecReassign == InitReassign /\ [][NextReassign]_vars

InitHandlers == LdInit /\ CtxInit /\ ReInit /\ HInit /\ CcInit /\ EbInit /\ ViInit

NextHandlers ==
    \/ RequestOverview \/ OverviewCall \/ TopicsLoop \/ TopicsDone
    \/ GroupsLoop \/ GroupsDone \/ OverviewAgain
    \/ RequestTopicView \/ TopicViewCheck
    \/ PartitionsFetch \/ ConfigFetch \/ ConsumersFetch

SpecHandlers == InitHandlers /\ [][NextHandlers]_vars

InitConcurrent == LdInit /\ CtxInit /\ ReInit /\ HInit /\ CcInit /\ EbInit /\ ViInit

NextConcurrent ==
    \E p \in Callers :
        \/ CcDescribeLogDirs(p) \/ CcLoopIteration(p) \/ CcReturnLogDirs(p)
        \/ CcListCall(p) \/ CcListReturn(p)
        \/ CcRequestTopics(p) \/ CcOverviewCall(p) \/ CcTopicsLoop(p) \/ CcTopicsDone(p)

SpecConcurrent == InitConcurrent /\ [][NextConcurrent]_vars

InitErrorBoundary == LdInit /\ CtxInit /\ ReInit /\ HInit /\ CcInit /\ EbInit /\ ViInit

NextErrorBoundary ==
    \/ ComponentDidCatch
    \/ \E d \in 1..MaxCatches : DecodeSuccess(d) \/ DecodeError(d)
    \/ CopyError
    \/ Dismiss

SpecErrorBoundary == InitErrorBoundary /\ [][NextErrorBoundary]_vars

\* a promise that is pending settles
SpecErrorBoundaryFair ==
    /\ SpecErrorBoundary
    /\ \A d \in 1..MaxCatches : WF_vars(Settle(d))

InitVersion == LdInit /\ CtxInit /\ ReInit /\ HInit /\ CcInit /\ EbInit /\ ViInit

NextVersion == StartKowl \/ ReadVersion \/ DefaultGitSha \/ PanicTodo

SpecVersion == InitVersion /\ [][NextVersion]_vars

NextCancel == DescribeLogDirs \/ LoopIteration \/ ReturnLogDirs \/ CancelCtx

SpecCancel == InitLogDirs /\ [][NextCancel]_vars

----------------------------------------------------------------------------
(* Helpers for stating the properties of logDirsByBroker.  The sums here  *)
(* are taken over the data itself, not over the code's accumulators.      *)

RECURSIVE SumNums(_)
SumNums(s) == IF s = <<>> THEN 0 ELSE Head(s) + SumNums(Tail(s))

\* the sizes a directory of the adapter response reports, summed
InputTopicSize(topic) ==
    SumNums([j \in Indices(topic.Partitions) |-> topic.Partitions[j].Size])
InputDirSize(dir) ==
    SumNums([i \in Indices(dir.Topics) |-> InputTopicSize(dir.Topics[i])])
InputDirPartitions(dir) ==
    SumNums([i \in Indices(dir.Topics) |-> Len(dir.Topics[i].Partitions)])

DistinctIds(resps) ==
    \A i, j \in Indices(resps) :
        i # j => resps[i].BrokerMetadata.NodeID # resps[j].BrokerMetadata.NodeID

Failing(resps) == { i \in Indices(resps) : resps[i].Error # None }

\* the response the outer loop has just finished with
Processed == ldPc \in {"loop", "done"} /\ idx > 1
Last == responses[idx - 1]
LastEntry == result[Last.BrokerMetadata.NodeID]

\* C1: in every returned map, a broker entry without an error has
\* TotalSizeBytes equal to the sum over its LogDirs, a LogDir without an
\* error has TotalSizeBytes equal to the sum over its Topics, and every
\* LogDirTopic has TotalSizeBytes equal to the sum of its partitions' sizes.
TopicAdditive(t) ==
    t.TotalSizeBytes = SumNums([j \in Indices(t.Partitions) |-> t.Partitions[j].SizeBytes])
LogDirAdditive(d) ==
    /\ d.Error = None =>
         d.TotalSizeBytes =
             SumNums([i \in Indices(d.Topics.elems) |-> d.Topics.elems[i].TotalSizeBytes])
    /\ \A i \in Indices(d.Topics.elems) : TopicAdditive(d.Topics.elems[i])
BrokerAdditive(b) ==
    /\ b.Error = None =>
         b.TotalSizeBytes =
             SumNums([k \in Indices(b.LogDirs.elems) |-> b.LogDirs.elems[k].TotalSizeBytes])
    /\ \A k \in Indices(b.LogDirs.elems) : LogDirAdditive(b.LogDirs.elems[k])
C1_RollupAdditivity ==
    ldRet.returned => \A id \in DOMAIN ldRet.value : BrokerAdditive(ldRet.value[id])

C1_Witness ==
    /\ ldRet.returned
    /\ \E id \in DOMAIN ldRet.value :
         LET b == ldRet.value[id]
         IN /\ b.Error = None
            /\ Len(b.LogDirs.elems) >= 2
            /\ \E k \in Indices(b.LogDirs.elems) :
                 /\ Len(b.LogDirs.elems[k].Topics.elems) >= 2
                 /\ \E i \in Indices(b.LogDirs.elems[k].Topics.elems) :
                      Len(b.LogDirs.elems[k].Topics.elems[i].Partitions) >= 2
            /\ b.TotalSizeBytes = 507

\* C2: when the broker ids are distinct and exactly one response carries an
\* error, the returned map has one entry per response, and every other
\* broker's entry is the one it gets when the failing response is replaced
\* by any successful response of the same broker.
Replaced(resps, i, p) ==
    [resps EXCEPT ![i] = Response(resps[i].BrokerMetadata.NodeID, p)]
C2_PartialFailureIsolation ==
    (ldRet.returned /\ DistinctIds(responses) /\ Cardinality(Failing(responses)) = 1) =>
        /\ Cardinality(DOMAIN ldRet.value) = Len(responses)
        /\ \A i \in Failing(responses) :
             \A p \in { q \in Payloads : q.Error = None } :
                LET baseline == BrokerLoop(EmptyMap, Replaced(responses, i, p), 1)
                IN \A j \in Indices(responses) \ {i} :
                      LET id == responses[j].BrokerMetadata.NodeID
                      IN /\ id \in DOMAIN ldRet.value
                         /\ ldRet.value[id] = baseline[id]

C2_Witness ==
    /\ ldRet.returned
    /\ Len(responses) = 3
    /\ DistinctIds(responses)
    /\ Failing(responses) = {2}
    /\ \A id \in {responses[1].BrokerMetadata.NodeID, responses[3].BrokerMetadata.NodeID} :
         ldRet.value[id].TotalSizeBytes = 250
    /\ ldRet.value[responses[2].BrokerMetadata.NodeID].TotalSizeBytes = 0

\* C3: once the loop has processed a response whose Error is set, the entry
\* stored for its broker carries the broker metadata and that error, a nil
\* LogDirs list and zero TotalSizeBytes, TopicCount and PartitionCount,
\* whatever log-dir data the response holds.
C3_BrokerFailureEntry ==
    (Processed /\ Last.Error # None) =>
        /\ Last.BrokerMetadata.NodeID \in DOMAIN result
        /\ LastEntry = [BrokerMeta |-> Last.BrokerMetadata,
                        Error |-> Last.Error,
                        TotalSizeBytes |-> 0,
                        LogDirs |-> NilSlice,
                        TopicCount |-> 0,
                        PartitionCount |-> 0]

C3_Witness ==
    /\ Processed
    /\ Last.Error # None
    /\ Last.LogDirs.Dirs # <<>>
    /\ LastEntry.LogDirs = NilSlice

\* C4: once the loop has processed a response without an error, every
\* directory of it with a non-zero error code is emitted with the error and
\* the path, nil Topics and zero totals; the broker's TotalSizeBytes,
\* TopicCount and PartitionCount count the other directories only; and every
\* other directory is aggregated and sits at its place in LogDirs.
OkDirs(dirs) == { k \in Indices(dirs) : dirs[k].ErrorCode = 0 }
SumOkDirs(dirs, F(_)) ==
    SumNums([k \in Indices(dirs) |-> IF dirs[k].ErrorCode = 0 THEN F(dirs[k]) ELSE 0])
NumTopics(dir) == Len(dir.Topics)
C4_DirFailureIsolation ==
    (Processed /\ Last.Error = None) =>
        LET dirs == Last.LogDirs.Dirs
            out == LastEntry.LogDirs.elems
        IN /\ Len(out) = Len(dirs)
           /\ \A k \in Indices(dirs) \ OkDirs(dirs) :
                /\ out[k].Error # None
                /\ out[k] = [Error |-> ErrorForCode(dirs[k].ErrorCode),
                             AbsolutePath |-> dirs[k].Dir,
                             TotalSizeBytes |-> 0,
                             Topics |-> NilSlice,
                             PartitionCount |-> 0]
           /\ \A k \in OkDirs(dirs) :
                /\ out[k].Error = None
                /\ out[k].AbsolutePath = dirs[k].Dir
                /\ Len(out[k].Topics.elems) = Len(dirs[k].Topics)
                /\ out[k].TotalSizeBytes = InputDirSize(dirs[k])
                /\ out[k].PartitionCount = InputDirPartitions(dirs[k])
           /\ LastEntry.TotalSizeBytes = SumOkDirs(dirs, InputDirSize)
           /\ LastEntry.TopicCount = SumOkDirs(dirs, NumTopics)
           /\ LastEntry.PartitionCount = SumOkDirs(dirs, InputDirPartitions)

\* a failed directory that reports data, followed and preceded by good ones
C4_Witness ==
    /\ Processed
    /\ Last.Error = None
    /\ \E k \in Indices(Last.LogDirs.Dirs) :
         /\ Last.LogDirs.Dirs[k].ErrorCode # 0
         /\ k < Len(Last.LogDirs.Dirs)
         /\ InputDirSize(Last.LogDirs.Dirs[k]) > 0
    /\ LastEntry.TotalSizeBytes > 0

\* C10 as claimed: when two responses carry the same broker id, the
\* aggregation reports a failure.
C10_DuplicateIdsFail ==
    (ldRet.returned /\ ~DistinctIds(responses)) => ldRet.err # None

\* C10 as amended: when two responses carry the same broker id, the
\* aggregation reports no failure; responses are never merged, and the map
\* holds for each broker id exactly the aggregate of the last response that
\* carries that id.
LastIndexOf(resps, id) ==
    CHOOSE i \in Indices(resps) :
        /\ resps[i].BrokerMetadata.NodeID = id
        /\ \A j \in Indices(resps) : resps[j].BrokerMetadata.NodeID = id => j <= i
IdsOf(resps) == { resps[i].BrokerMetadata.NodeID : i \in Indices(resps) }
C10_DuplicateIdsLastWins ==
    (ldRet.returned /\ ~DistinctIds(responses)) =>
        /\ ldRet.err = None
        /\ DOMAIN ldRet.value = IdsOf(responses)
        /\ \A id \in IdsOf(responses) :
             ldRet.value[id] = AggregateBroker(responses[LastIndexOf(responses, id)])

\* two responses of one broker, the first with data and the second failed
C10_Witness ==
    /\ ldRet.returned
    /\ \E i, j \in Indices(responses) :
         /\ i < j
         /\ responses[i].BrokerMetadata.NodeID = responses[j].BrokerMetadata.NodeID
         /\ responses[i].Error = None
         /\ responses[i].LogDirs.Dirs # <<>>
         /\ responses[j].Error # None
         /\ j = LastIndexOf(responses, responses[j].BrokerMetadata.NodeID)
         /\ ldRet.value[responses[j].BrokerMetadata.NodeID].LogDirs = NilSlice

----------------------------------------------------------------------------
(* Properties of the reassignment translation *)

ReDone(op) == rePc = "done" /\ reOp = op
\* the adapter call itself succeeded and the top-level error code is zero
ReFatal == reRaw.err # None \/ reRaw.res[1].ErrorCode # 0
RawTopicsOf == reRaw.res[1].Topics
OutTopics == reRet.res.elems

\* C5: in the result of ListPartitionReassignments, every partition's
\* Replicas is the raw partition's full replica set.
C5_ReplicasPreserved ==
    (ReDone("list") /\ ~ReFatal) =>
        \A i \in Indices(RawTopicsOf) :
            \A j \in Indices(RawTopicsOf[i].Partitions) :
                /\ i \in Indices(OutTopics)
                /\ j \in Indices(OutTopics[i].Partitions.elems)
                /\ OutTopics[i].Partitions.elems[j].Replicas =
                       RawTopicsOf[i].Partitions[j].Replicas

\* C6: both operations return an error exactly when the adapter call
\* returned an error or the top-level error code is non-zero, and then the
\* result is nil; in every other case the result is non-nil and the error nil.
C6_FatalErrors ==
    (ReDone("list") \/ ReDone("alter")) =>
        /\ (reRet.err # None) <=> ReFatal
        /\ ReFatal => reRet.res = NilSlice
        /\ ~ReFatal => ~reRet.res.isNil

\* a non-zero top-level code on a response that holds topics
C6_Witness ==
    /\ ReDone("list")
    /\ reRaw.err = None
    /\ reRaw.res[1].ErrorCode # 0
    /\ Len(RawTopicsOf) > 0
    /\ reRet.res = NilSlice
    /\ reRet.err # None

\* C7: when the adapter call succeeded with a zero top-level code,
\* AlterPartitionAssignments returns a nil error whatever the partitions'
\* codes, and a partition's ErrorCode string is empty exactly when that
\* partition's own code is zero.
C7_PartitionErrorsNonFatal ==
    (ReDone("alter") /\ ~ReFatal) =>
        /\ reRet.err = None
        /\ Len(OutTopics) = Len(RawTopicsOf)
        /\ \A i \in Indices(RawTopicsOf) :
             /\ Len(OutTopics[i].Partitions.elems) = Len(RawTopicsOf[i].Partitions)
             /\ \A j \in Indices(RawTopicsOf[i].Partitions) :
                  (OutTopics[i].Partitions.elems[j].ErrorCode = "")
                      <=> (RawTopicsOf[i].Partitions[j].ErrorCode = 0)

\* a failed partition followed by a good one in the same topic
C7_Witness ==
    /\ ReDone("alter")
    /\ ~ReFatal
    /\ reRet.err = None
    /\ \E i \in Indices(RawTopicsOf) :
         /\ Len(RawTopicsOf[i].Partitions) = 2
         /\ RawTopicsOf[i].Partitions[1].ErrorCode # 0
         /\ RawTopicsOf[i].Partitions[2].ErrorCode = 0
         /\ OutTopics[i].Partitions.elems[1].ErrorCode # ""
         /\ OutTopics[i].Partitions.elems[2].ErrorCode = ""

\* C8: the result of AlterPartitionAssignments has one entry per topic of the
\* adapter response, in order and with the topic's name, each with one entry
\* per partition, in order, with the partition's id and error message.
C8_AlterPreservesIdentity ==
    (ReDone("alter") /\ ~ReFatal) =>
        /\ Len(OutTopics) = Len(RawTopicsOf)
        /\ \A i \in Indices(RawTopicsOf) :
             /\ OutTopics[i].TopicName = RawTopicsOf[i].Topic
             /\ Len(OutTopics[i].Partitions.elems) = Len(RawTopicsOf[i].Partitions)
             /\ \A j \in Indices(RawTopicsOf[i].Partitions) :
                  /\ OutTopics[i].Partitions.elems[j].PartitionID =
                         RawTopicsOf[i].Partitions[j].Partition
                  /\ OutTopics[i].Partitions.elems[j].ErrorMessage =
                         RawTopicsOf[i].Partitions[j].ErrorMessage

\* two topics of different names, a partition with and one without a message
C8_Witness ==
    /\ ReDone("alter")
    /\ ~ReFatal
    /\ Len(OutTopics) = 2
    /\ OutTopics[1].TopicName # OutTopics[2].TopicName
    /\ Len(OutTopics[1].Partitions.elems) = 2
    /\ OutTopics[1].Partitions.elems[1].ErrorMessage # None
    /\ OutTopics[1].Partitions.elems[2].ErrorMessage = None

\* C9: on success ListPartitionReassignments returns one entry per topic of
\* the raw listing, in order and with the topic's name, each with one entry
\* per raw partition, in order, whose PartitionID, AddingReplicas and
\* RemovingReplicas are the raw partition's.
C9_ListVerbatim ==
    (ReDone("list") /\ ~ReFatal) =>
        /\ reRet.err = None
        /\ Len(OutTopics) = Len(RawTopicsOf)
        /\ \A i \in Indices(RawTopicsOf) :
             /\ OutTopics[i].TopicName = RawTopicsOf[i].Topic
             /\ Len(OutTopics[i].Partitions.elems) = Len(RawTopicsOf[i].Partitions)
             /\ \A j \in Indices(RawTopicsOf[i].Partitions) :
                  LET out == OutTopics[i].Partitions.elems[j]
                      raw == RawTopicsOf[i].Partitions[j]
                  IN /\ out.PartitionID = raw.Partition
                     /\ out.AddingReplicas = raw.AddingReplicas
                     /\ out.RemovingReplicas = raw.RemovingReplicas

\* two topics of different names, a partition that adds one replica and
\* removes another
C9_Witness ==
    /\ ReDone("list")
    /\ ~ReFatal
    /\ Len(OutTopics) = 2
    /\ OutTopics[1].TopicName # OutTopics[2].TopicName
    /\ Len(OutTopics[2].Partitions.elems) = 2
    /\ OutTopics[2].Partitions.elems[1].AddingReplicas = <<4>>
    /\ OutTopics[2].Partitions.elems[1].RemovingReplicas = <<1>>

----------------------------------------------------------------------------
(* Cancellation and per-node failures of logDirsByBroker *)

\* C11 as claimed: if the context is cancelled while logDirsByBroker is in
\* flight, it returns a cancellation error and no map.
C11_CancelReturnsError ==
    (ldRet.returned /\ ctxDone) => (ldRet.err # None /\ ldRet.value = EmptyMap)

\* C11 as amended: if the context is cancelled while logDirsByBroker is in
\* flight, it still returns a nil error and a map; the map has an entry for
\* every broker the adapter reported, and a broker reported with an error
\* (such as the cancellation) is in the map with that error, nil LogDirs
\* and zero rollups: no reported broker is missing without an error marker.
C11_CancelKeepsErrorMarkers ==
    (ldRet.returned /\ ctxDone) =>
        /\ ldRet.err = None
        /\ \A i \in Indices(responses) :
             LET id == responses[i].BrokerMetadata.NodeID
             IN /\ id \in DOMAIN ldRet.value
                /\ (i = LastIndexOf(responses, id) /\ responses[i].Error # None) =>
                      /\ ldRet.value[id].Error = responses[i].Error
                      /\ ldRet.value[id].LogDirs = NilSlice
                      /\ ldRet.value[id].TotalSizeBytes = 0

\* cancelled before the adapter answered: one broker populated, one abandoned
C11_Witness ==
    /\ ldRet.returned
    /\ ctxDone
    /\ \E a, b \in DOMAIN ldRet.value :
         /\ ldRet.value[a].Error = CtxCanceled
         /\ ldRet.value[b].Error = None
         /\ ldRet.value[b].TotalSizeBytes = 250

\* C12: for every list of broker responses, failed brokers included,
\* logDirsByBroker returns a nil error and a map with an entry for every
\* broker id of the responses and for no other.
C12_NeverFailsWholeCall ==
    ldRet.returned =>
        /\ ldRet.err = None
        /\ DOMAIN ldRet.value = IdsOf(responses)

\* every broker failed
C12_Witness ==
    /\ ldRet.returned
    /\ Len(responses) = 3
    /\ DistinctIds(responses)
    /\ \A i \in Indices(responses) : responses[i].Error # None
    /\ ldRet.err = None
    /\ Cardinality(DOMAIN ldRet.value) = 3

----------------------------------------------------------------------------
(* Properties of the handlers *)

Finished == h.pc = "done"
LastSent == h.sent[Len(h.sent)]
Succeeded == Finished /\ h.sent # <<>> /\ LastSent.kind = "ok"
Overview == h.op \in OverviewOps
\* the list of the success response of an overview
BodyList == IF h.op = "topics" THEN LastSent.body[1].Topics ELSE LastSent.body[1].ConsumerGroups
\* the names the service aggregated, in its order
SvcNames == [i \in Indices(h.svc[1].items) |-> h.svc[1].items[i].Name]
\* the answers of the attached hooks for the resource kind of the request
SeeAnswer(name) ==
    IF h.op = "topics" THEN CanSeeTopic(h.hooks, name) ELSE CanSeeConsumerGroup(h.hooks, name)
ActionsAnswer(name) ==
    IF h.op = "topics" THEN AllowedTopicActions(h.hooks, name)
    ELSE AllowedConsumerGroupActions(h.hooks, name)
Seen(name) == SeeAnswer(name).err = None /\ SeeAnswer(name).ok
SeeHooks == {"CanSeeTopic", "CanSeeConsumerGroup"}
ActionHooks == {"AllowedTopicActions", "AllowedConsumerGroupActions"}
ViewHooks == {"CanViewTopicPartitions", "CanViewTopicConfig", "CanViewTopicConsumers"}
SvcCalls == {"GetTopicsOverview", "GetConsumerGroupsOverview", "GetTopicDetails",
             "GetTopicConfigs", "ListTopicConsumers"}
Called(fns) == { k \in Indices(h.calls) : h.calls[k].fn \in fns }

\* C13: the list of a successful overview response holds exactly the
\* aggregated resources whose can-see hook answered true, once each, in the
\* order of the aggregation.
C13_HiddenAbsent ==
    (Succeeded /\ Overview) =>
        [i \in Indices(BodyList) |-> BodyList[i].Name] = SelectSeq(SvcNames, Seen)

\* a topics overview with two topics of which the first one is hidden
C13_Witness ==
    /\ Succeeded
    /\ h.op = "topics"
    /\ Len(SvcNames) = 2
    /\ ~Seen(SvcNames[1])
    /\ Len(BodyList) = 1

\* C14: an allowed-actions hook is invoked, and AllowedActions written,
\* only for a resource whose can-see check has returned true.
C14_NoSpeculativeActions ==
    (h.pc \in {"loop", "done"} /\ Overview) =>
        /\ \A k \in Called(ActionHooks) :
             /\ Seen(h.calls[k].arg)
             /\ \E j \in Called(SeeHooks) : j < k /\ h.calls[j].arg = h.calls[k].arg
        /\ \A i \in Indices(h.objs) :
             h.objs[i].AllowedActions # NilSlice => Seen(h.objs[i].Name)

\* C15: in a successful overview response every resource has the
\* AllowedActions the allowed-actions hook returned for its name.
C15_EveryResourceAnnotated ==
    (Succeeded /\ Overview) =>
        \A i \in Indices(BodyList) :
            /\ ActionsAnswer(BodyList[i].Name).err = None
            /\ BodyList[i].AllowedActions = ActionsAnswer(BodyList[i].Name).actions

\* a groups overview that returns two groups with different actions
C15_Witness ==
    /\ Succeeded
    /\ h.op = "groups"
    /\ h.hooks.kind = "custom"
    /\ Len(BodyList) = 2
    /\ BodyList[1].AllowedActions # BodyList[2].AllowedActions
    /\ BodyList[1].AllowedActions # NilSlice

\* a check hook was asked in this request and said no without failing
Denied ==
    \E k \in Called(SeeHooks \cup ViewHooks) :
        LET answer == IF h.calls[k].fn \in SeeHooks THEN SeeAnswer(h.calls[k].arg)
                      ELSE ViewHook(h.op, h.hooks, h.calls[k].arg)
        IN answer.err = None /\ ~answer.ok
\* no hook asked in this request failed, nor did the service
NothingFailed ==
    /\ \A k \in Called(SeeHooks) : SeeAnswer(h.calls[k].arg).err = None
    /\ \A k \in Called(ActionHooks) : ActionsAnswer(h.calls[k].arg).err = None
    /\ \A k \in Called(ViewHooks) : ViewHook(h.op, h.hooks, h.calls[k].arg).err = None
    /\ h.svc # None => h.svc[1].err = None

\* C16 as claimed: in every query, when a hook answers 'not allowed'
\* without failing, the request does not end in an error response.
C16_DenialIsNoError ==
    (Finished /\ Denied /\ NothingFailed) => LastSent.kind = "ok"

\* C16 as amended: in the two overview handlers a can-see denial is no
\* error: when the service and every hook asked succeed the response is a
\* 200 without the denied resources.  In the three per-topic handlers a
\* denial ends the request with a 403 error response that carries no data,
\* before the service is called.
C16_DenialOutcome ==
    (Finished /\ Denied /\ NothingFailed) =>
        IF Overview
        THEN /\ h.sent = <<LastSent>>
             /\ LastSent.kind = "ok"
             /\ LastSent.status = StatusOK
             /\ \A i \in Indices(BodyList) : Seen(BodyList[i].Name)
        ELSE /\ h.sent = <<[kind |-> "error", status |-> StatusForbidden,
                            message |-> ForbiddenMessage(h.op), body |-> None]>>
             /\ Called(SvcCalls) = {}

\* a denied partitions view, and a groups overview with a denied group
C16_Witness ==
    /\ Finished
    /\ Denied
    /\ NothingFailed
    /\ \/ h.op = "partitions"
       \/ h.op = "groups" /\ Len(SvcNames) = 2 /\ Len(BodyList) = 1

\* C17: with the default hooks every check returns true without an error,
\* both allowed-actions hooks return the single action "all", no request
\* is denied, and an overview response holds every aggregated resource.
AllowsAll(answer) == answer = [ok |-> TRUE, err |-> None]
C17_DefaultAllowAll ==
    /\ \A n \in ResourceNames :
         /\ AllowsAll(DefaultCanSeeTopic(n))
         /\ AllowsAll(DefaultCanViewTopicPartitions(n))
         /\ AllowsAll(DefaultCanViewTopicConfig(n))
         /\ AllowsAll(DefaultCanViewTopicConsumers(n))
         /\ AllowsAll(DefaultCanSeeConsumerGroup(n))
         /\ DefaultAllowedTopicActions(n) = [actions |-> Slice(<<"all">>), err |-> None]
         /\ DefaultAllowedConsumerGroupActions(n) = [actions |-> Slice(<<"all">>), err |-> None]
    /\ AllowsAll(DefaultCanListACLs)
    /\ AllowsAll(DefaultCanPatchPartitionReassignments)
    /\ AllowsAll(DefaultCanPatchConfigs)
    /\ (Finished /\ h.hooks.kind = "default") =>
         /\ ~Denied
         /\ Overview =>
              IF h.svc[1].err # None THEN LastSent.kind = "error"
              ELSE /\ Succeeded
                   /\ [i \in Indices(BodyList) |-> BodyList[i].Name] = SvcNames
                   /\ \A i \in Indices(BodyList) :
                        BodyList[i].AllowedActions = Slice(<<"all">>)
         /\ ~Overview => Called(SvcCalls) # {}

\* a groups overview under the default hooks with two groups
C17_Witness ==
    /\ Succeeded
    /\ h.hooks.kind = "default"
    /\ h.op = "groups"
    /\ Len(BodyList) = 2

\* C18: serving the same overview request twice, with the same hook answers
\* and the same aggregation result, sends the same response both times.
C18_FilteringIdempotent ==
    (Finished /\ Overview /\ hRun = 2) => h.sent = hFirst

\* a second topics overview over the objects the first one annotated, with
\* a visible and a hidden topic
C18_Witness ==
    /\ Succeeded
    /\ hRun = 2
    /\ h.op = "topics"
    /\ h.hooks.kind = "custom"
    /\ Len(SvcNames) = 2
    /\ Len(BodyList) = 1
    /\ BodyList[1].AllowedActions.elems # <<>>

\* the 500 response of a failed service call
FatalResponse(message) ==
    [kind |-> "error", status |-> StatusInternalServerError, message |-> message, body |-> None]
FatalOps == {"topics", "groups", "consumers"}
SvcFailed == Finished /\ h.op \in FatalOps /\ h.svc # None /\ h.svc[1].err # None

\* C19 as claimed: in the topics overview, topic consumers and groups
\* overview handlers a failed service call ends in one 500 response with
\* the fixed message, no authorization hook is invoked and no success
\* response is sent; a 200 is sent only when the service call succeeded.
C19_FatalNoHook ==
    /\ SvcFailed =>
         /\ h.sent = <<FatalResponse(IF h.op = "consumers"
                                     THEN "Could not list topic consumers for requested topic"
                                     ELSE OverviewMessage(h.op))>>
         /\ Called(SeeHooks \cup ActionHooks \cup ViewHooks) = {}
    /\ (Finished /\ h.op \in FatalOps /\ h.sent # <<>> /\ LastSent.status = StatusOK) =>
         (h.svc # None /\ h.svc[1].err = None)

\* C19 as amended: the same, except that no authorization hook is invoked
\* after the failed service call: the overview handlers have invoked none
\* at all, handleGetTopicConsumers has invoked CanViewTopicConsumers, once,
\* before the service call.
C19_FatalNoHookAfter ==
    /\ SvcFailed =>
         /\ h.sent = <<FatalResponse(IF h.op = "consumers"
                                     THEN "Could not list topic consumers for requested topic"
                                     ELSE OverviewMessage(h.op))>>
         /\ h.calls[Len(h.calls)].fn \in SvcCalls
         /\ Called(SeeHooks \cup ActionHooks) = {}
         /\ IF h.op = "consumers" THEN Called(ViewHooks) = {1} /\ Len(h.calls) = 2
            ELSE Len(h.calls) = 1
    /\ (Finished /\ h.op \in FatalOps /\ h.sent # <<>> /\ LastSent.status = StatusOK) =>
         (h.svc # None /\ h.svc[1].err = None)

\* ListTopicConsumers fails after the permission check has passed
C19_Witness ==
    /\ SvcFailed
    /\ h.op = "consumers"
    /\ h.hooks.kind = "custom"
    /\ LastSent.status = StatusInternalServerError

----------------------------------------------------------------------------
(* Properties of concurrent calls *)

\* handleGetTopics run alone, from the answer of GetTopicsOverview on
RECURSIVE RunTopics(_)
RunTopics(req) ==
    IF req.pc = "done" THEN req
    ELSE IF req.idx <= Len(req.objs) THEN RunTopics(TopicsIteration(req))
    ELSE RunTopics(TopicsRespond(req))

\* the call of p has produced what it produces when it runs alone
SameAsAlone(p) ==
    LET c == inflight[p]
    IN CASE c.kind = "logdirs" ->
              c.ret = [returned |-> TRUE, value |-> BrokerLoop(EmptyMap, c.responses, 1),
                       err |-> None]
         [] c.kind = "list" -> c.ret = Some(ListPartitionReassignments(c.raw))
         [] c.kind = "topics" ->
              LET alone == RunTopics(OverviewCalled(NewRequest("topics", c.req.hooks, ""),
                                                    c.req.svc[1]))
              IN c.req.sent = alone.sent /\ c.req.calls = alone.calls

\* the addresses the call of p reaches
Reach(p) ==
    LET c == inflight[p]
    IN CASE c.kind = "logdirs" -> {c.result}
         [] c.kind = "topics" -> { c.topics[i] : i \in Indices(c.topics) }
         [] OTHER -> {}

\* C20: in every interleaving of concurrent calls (log-dir aggregation,
\* list of reassignments, topics overview) each finished call has produced
\* the result it produces alone on the same adapter responses and hook
\* answers, and what a call reaches has been written by that call only.
C20_ConcurrentCallsIndependent ==
    \A p \in Callers :
        /\ inflight[p].pc = "done" => SameAsAlone(p)
        /\ \A a \in Reach(p) : heap[a].by = {p}
        /\ \A q \in Callers \ {p} : Reach(p) \cap Reach(q) = {}

\* a topics overview and a log-dir aggregation that ran at the same time
\* have both finished, the overview with two annotated topics
C20_Witness ==
    /\ inflight["a"].pc = "done"
    /\ inflight["b"].pc = "done"
    /\ inflight["a"].kind = "topics"
    /\ inflight["b"].kind = "logdirs"
    /\ inflight["a"].met = {"b"}
    /\ inflight["a"].req.sent # <<>>
    /\ inflight["a"].req.sent[1].kind = "ok"
    /\ Len(inflight["a"].req.sent[1].body[1].Topics) = 2
    /\ Len(inflight["b"].responses) = 2

----------------------------------------------------------------------------
(* Further properties of the handlers *)

InRequest == h.pc # "idle"
HookCalls == Called(SeeHooks \cup ActionHooks \cup ViewHooks)
\* no hook operation is asked twice about the same resource in one request
AskedOnce == \A j, k \in HookCalls : j # k => h.calls[j] # h.calls[k]

\* C21 as claimed: in every handler a hook is invoked only after the
\* service call that aggregates the resource has returned, and at most
\* once per resource and hook operation in one request.
C21_GateAfterAggregation ==
    InRequest =>
        /\ \A k \in HookCalls : \E j \in Called(SvcCalls) : j < k
        /\ AskedOnce

\* C21 as amended: in the two overview handlers every hook is invoked after
\* the service call has returned; in the three per-topic handlers the view
\* hook is the first call of the request and the service is called after
\* it; in all five, at most once per resource and hook operation.
C21_GateOrder ==
    InRequest =>
        /\ Overview => \A k \in HookCalls : \E j \in Called(SvcCalls) : j < k
        /\ ~Overview => /\ HookCalls \subseteq {1}
                        /\ \A j \in Called(SvcCalls) : j = 2 /\ HookCalls = {1}
        /\ AskedOnce

\* a groups overview that asked both hooks about two groups, and a
\* partitions view that reached the service
C21_Witness ==
    /\ Finished
    /\ \/ h.op = "groups" /\ Cardinality(HookCalls) = 4
       \/ h.op = "partitions" /\ Called(SvcCalls) = {2}

\* a hook of an overview loop has failed in this request
LoopHookFailed ==
    \/ \E k \in Called(SeeHooks) : SeeAnswer(h.calls[k].arg).err # None
    \/ \E k \in Called(ActionHooks) : ActionsAnswer(h.calls[k].arg).err # None

\* C25: every handler sends exactly one response, an error or a success,
\* and nothing before it ends; when a hook fails in the loop of an overview
\* handler the one response is that error and carries no list.
C25_ExactlyOneResponse ==
    InRequest =>
        /\ Finished => Len(h.sent) = 1
        /\ ~Finished => h.sent = <<>>
        /\ (Finished /\ Overview /\ LoopHookFailed) =>
             h.sent = <<[kind |-> "error", status |-> HookErr.Status,
                         message |-> HookErr.Message, body |-> None]>>

\* a topics overview whose second topic's allowed-actions hook failed after
\* the first topic had been put on the visible list
C25_Witness ==
    /\ Finished
    /\ h.op = "topics"
    /\ LoopHookFailed
    /\ Len(h.visible) >= 1
    /\ h.idx = 2
    /\ Len(h.sent) = 1

\* the view hook of a per-topic request said no, or failed
ViewRefused ==
    /\ h.op \in TopicViewOps
    /\ h.calls # <<>>
    /\ LET answer == ViewHook(h.op, h.hooks, h.topicName)
       IN answer.err # None \/ ~answer.ok

\* C26: in the three per-topic handlers the permission hook is the first
\* call; when it returns false or an error the service is never called and
\* the response is an error response without data.
C26_NoFetchWhenDenied ==
    (InRequest /\ h.op \in TopicViewOps) =>
        /\ h.calls # <<>> => h.calls[1] = [fn |-> ViewHookName(h.op), arg |-> h.topicName]
        /\ ViewRefused =>
             /\ Called(SvcCalls) = {}
             /\ h.svc = None
             /\ Finished
             /\ Len(h.sent) = 1
             /\ h.sent[1].kind = "error"
             /\ h.sent[1].body = None

\* a consumers view refused by a failing hook
C26_Witness ==
    /\ Finished
    /\ h.op = "consumers"
    /\ ViewRefused
    /\ ViewHook(h.op, h.hooks, h.topicName).err # None

\* C27: handleGetPartitions sends a success only when the service returned
\* exactly one detail, with the partitions of that detail under the
\* requested topic name; zero or several details end in a 500 error
\* response without data.
C27_ExactlyOneDetail ==
    (Finished /\ h.op = "partitions" /\ h.svc # None) =>
        LET out == h.svc[1]
        IN /\ LastSent.kind = "ok" =>
                /\ out.err = None
                /\ Len(out.items) = 1
                /\ LastSent.body = Some([TopicName |-> h.topicName,
                                         Partitions |-> out.items[1].Partitions])
           /\ (out.err = None /\ Len(out.items) # 1) =>
                /\ LastSent.kind = "error"
                /\ LastSent.status = StatusInternalServerError
                /\ LastSent.body = None
                /\ Len(h.sent) = 1

\* the service returned two details for the one requested topic
C27_Witness ==
    /\ Finished
    /\ h.op = "partitions"
    /\ h.svc # None
    /\ h.svc[1].err = None
    /\ Len(h.svc[1].items) = 2
    /\ LastSent.status = StatusInternalServerError

----------------------------------------------------------------------------
(* Further properties of logDirsByBroker *)

RECURSIVE Flatten(_)
Flatten(ss) == IF ss = <<>> THEN <<>> ELSE Head(ss) \o Flatten(Tail(ss))

Leaf(node, dir, topic, id, lag, size) ==
    [node |-> node, dir |-> dir, topic |-> topic, id |-> id, lag |-> lag, size |-> size]

\* the partition records of the non-error directories of one response
InputDirLeaves(node, dir) ==
    Flatten([i \in Indices(dir.Topics) |->
                [j \in Indices(dir.Topics[i].Partitions) |->
                    LET p == dir.Topics[i].Partitions[j]
                    IN Leaf(node, dir.Dir, dir.Topics[i].Topic,
                            p.Partition, p.OffsetLag, p.Size)]])
InputLeaves(resp) ==
    Flatten([k \in Indices(resp.LogDirs.Dirs) |->
                IF ErrorForCode(resp.LogDirs.Dirs[k].ErrorCode) = None
                THEN InputDirLeaves(resp.BrokerMetadata.NodeID, resp.LogDirs.Dirs[k])
                ELSE <<>>])

\* the partition leaves of one broker entry of the result
OutputDirLeaves(node, d) ==
    Flatten([i \in Indices(d.Topics.elems) |->
                [j \in Indices(d.Topics.elems[i].Partitions) |->
                    LET p == d.Topics.elems[i].Partitions[j]
                    IN Leaf(node, d.AbsolutePath, d.Topics.elems[i].TopicName,
                            p.PartitionID, p.OffsetLag, p.SizeBytes)]])
OutputLeaves(b) ==
    Flatten([k \in Indices(b.LogDirs.elems) |->
                IF b.LogDirs.elems[k].Error = None
                THEN OutputDirLeaves(b.BrokerMeta.NodeID, b.LogDirs.elems[k])
                ELSE <<>>])

Count(x, s) == Cardinality({ k \in Indices(s) : s[k] = x })
AllInputLeaves == Flatten([i \in Indices(responses) |-> InputLeaves(responses[i])])
OutCount(leaf) ==
    IF leaf.node \in DOMAIN ldRet.value THEN Count(leaf, OutputLeaves(ldRet.value[leaf.node]))
    ELSE 0

\* the count rollups of a broker entry and of its directories
OkLogDirs(b) == { k \in Indices(b.LogDirs.elems) : b.LogDirs.elems[k].Error = None }
CountsAdditive(b) ==
    /\ b.Error = None =>
         /\ b.PartitionCount =
              SumNums([k \in Indices(b.LogDirs.elems) |->
                          IF k \in OkLogDirs(b) THEN b.LogDirs.elems[k].PartitionCount ELSE 0])
         /\ b.TopicCount =
              SumNums([k \in Indices(b.LogDirs.elems) |->
                          IF k \in OkLogDirs(b) THEN Len(b.LogDirs.elems[k].Topics.elems)
                          ELSE 0])
    /\ \A k \in OkLogDirs(b) :
         LET d == b.LogDirs.elems[k]
         IN d.PartitionCount =
               SumNums([i \in Indices(d.Topics.elems) |-> Len(d.Topics.elems[i].Partitions)])

\* C22 as claimed: the count rollups are the sums over the non-error
\* children, and every partition record of the input's non-error
\* directories is exactly once in the output, unchanged.
C22_EveryRecordOnce ==
    ldRet.returned =>
        /\ \A id \in DOMAIN ldRet.value : CountsAdditive(ldRet.value[id])
        /\ \A n \in Indices(AllInputLeaves) :
             OutCount(AllInputLeaves[n]) = Count(AllInputLeaves[n], AllInputLeaves)

\* C22 as amended: the count rollups are the sums over the non-error
\* children, and the partition leaves of a broker entry without an error
\* are the partition records of the non-error directories of the response
\* stored for that broker (the last one with its id), each once, in place
\* and unchanged.
C22_CountsAndLeaves ==
    ldRet.returned =>
        \A id \in DOMAIN ldRet.value :
            LET b == ldRet.value[id]
            IN /\ CountsAdditive(b)
               /\ b.Error = None =>
                    OutputLeaves(b) = InputLeaves(responses[LastIndexOf(responses, id)])
               /\ b.Error # None => OutputLeaves(b) = <<>>

\* a broker with two good directories around a failed one: four topics and
\* five partitions are counted
C22_Witness ==
    /\ ldRet.returned
    /\ \E id \in DOMAIN ldRet.value :
         LET b == ldRet.value[id]
         IN /\ b.Error = None
            /\ Len(b.LogDirs.elems) = 3
            /\ Cardinality(OkLogDirs(b)) = 2
            /\ b.TopicCount = 4
            /\ b.PartitionCount = 5
            /\ Len(OutputLeaves(b)) = 5

\* the names of a sequence of records
PathsOf(dirs) == [k \in Indices(dirs) |-> dirs[k].Dir]
TopicsOf(topics) == [i \in Indices(topics) |-> topics[i].Topic]
PartitionsOf(parts) == [j \in Indices(parts) |-> parts[j].Partition]

\* the entry of one response keeps the adapter's order at every level
OrderKept(b, resp) ==
    LET dirs == resp.LogDirs.Dirs
        out == b.LogDirs.elems
    IN /\ [k \in Indices(out) |-> out[k].AbsolutePath] = PathsOf(dirs)
       /\ \A k \in OkLogDirs(b) :
            LET ts == out[k].Topics.elems
            IN /\ [i \in Indices(ts) |-> ts[i].TopicName] = TopicsOf(dirs[k].Topics)
               /\ \A i \in Indices(ts) :
                    [j \in Indices(ts[i].Partitions) |-> ts[i].Partitions[j].PartitionID]
                        = PartitionsOf(dirs[k].Topics[i].Partitions)

\* C23: the result is a function of the adapter responses alone (a second
\* run over the same responses gives the same map), and in every broker
\* entry the directories, topics and partitions are in the adapter's order.
C23_DeterministicOrder ==
    ldRet.returned =>
        /\ ldRet.value = BrokerLoop(EmptyMap, responses, 1)
        /\ \A id \in DOMAIN ldRet.value :
             ldRet.value[id].Error = None =>
                 OrderKept(ldRet.value[id], responses[LastIndexOf(responses, id)])

\* an entry whose first directory has three topics, the last of them with
\* two partitions
C23_Witness ==
    /\ ldRet.returned
    /\ \E id \in DOMAIN ldRet.value :
         LET b == ldRet.value[id]
         IN /\ b.Error = None
            /\ Len(b.LogDirs.elems) = 3
            /\ Len(b.LogDirs.elems[1].Topics.elems) = 3
            /\ b.LogDirs.elems[1].Topics.elems[1].TopicName = "payments"
            /\ Len(b.LogDirs.elems[1].Topics.elems[3].Partitions) = 2
            /\ b.LogDirs.elems[1].Topics.elems[3].Partitions[1].PartitionID = 0

\* the responses in another order
Permuted(resps, f) == [i \in Indices(resps) |-> resps[f[i]]]
SameForEveryOrder ==
    \A f \in Permutations(Indices(responses)) :
        BrokerLoop(EmptyMap, Permuted(responses, f), 1) = ldRet.value

\* C24 as claimed: for every list of broker responses, every permutation
\* of the list aggregates to the same map.
C24_AnyOrderSameMap == ldRet.returned => SameForEveryOrder

\* C24 as amended: for every list of broker responses with pairwise
\* different broker ids, every permutation of the list aggregates to the
\* same map.
C24_DistinctIdsAnyOrder ==
    (ldRet.returned /\ DistinctIds(responses)) => SameForEveryOrder

\* three different brokers, one failed and two with different data
C24_Witness ==
    /\ ldRet.returned
    /\ DistinctIds(responses)
    /\ Len(responses) = 3
    /\ Cardinality(Failing(responses)) = 1
    /\ \E i, j \in Indices(responses) :
         /\ i < j
         /\ responses[i].Error = None
         /\ responses[j].Error = None
         /\ responses[i].LogDirs # responses[j].LogDirs

----------------------------------------------------------------------------
(* Properties of the ErrorBoundary *)

\* C28: once componentDidCatch has run, for any caught error, decodingDone
\* eventually becomes true unless the error is dismissed first (every
\* pending stack decode settles): the Copy Info button of an error on
\* display does not stay disabled for ever.
C28_DecodingCompletes == eb.hasError ~> (eb.decodingDone \/ ~eb.hasError)

\* the 'Stack (Decoded)' items on display whose value is still the
\* placeholder
Undecoded ==
    { i \in Indices(eb.infoItems) :
        eb.infoItems[i].kind = "func" /\ eb.decodes[eb.infoItems[i].holder].value = None }

\* C29: whenever hasError and decodingDone are both true, the error on
\* display has a stack decode of its own, that decode has settled, and its
\* 'Stack (Decoded)' item holds the settled value.
C29_NoStaleDecode ==
    (eb.hasError /\ eb.decodingDone) =>
        /\ Undecoded = {}
        /\ HasStack(eb.error)
        /\ eb.decodes[Len(eb.decodes)].state # "pending"

----------------------------------------------------------------------------
(* Properties of loadVersionInfo *)

\* strconv.ParseInt(s, 10, 64) on the timestamps of the environments
ParseInt(str) ==
    IF str = "1600000000" THEN [value |-> 1600000000, err |-> None]
    ELSE [value |-> 0, err |-> Some("invalid syntax")]

\* C30: loadVersionInfo never panics, and when it has returned gitSha is
\* "dev" for an unset or empty REACT_APP_KOWL_GIT_SHA and the variable's
\* value otherwise, and timestamp is the parsed REACT_APP_KOWL_TIMESTAMP,
\* or the zero time when that does not parse.
C30_ReturnsNormally ==
    /\ vi.pc # "panicked"
    /\ vi.pc = "returned" =>
         LET env == vi.env[1]
             parsed == ParseInt(env.REACT_APP_KOWL_TIMESTAMP)
         IN /\ vi.version[1].gitSha = IF env.REACT_APP_KOWL_GIT_SHA = "" THEN "dev"
                                      ELSE env.REACT_APP_KOWL_GIT_SHA
            /\ vi.version[1].timestamp = IF parsed.err = None
                                         THEN [unix |-> Some(parsed.value)]
                                         ELSE ZeroTime

====
